---------------------------- MODULE Spec2Model ----------------------------
(***************************************************************************)
(* A model of the frame curation and retrieval engine of bort:             *)
(*   dedupe_frames.py      find_duplicates (consecutive near-duplicates)   *)
(*   index.py              index_frames, get_episode_timestamps            *)
(*   index_new_episodes.py index_new_episodes (incremental ingestion)      *)
(*   search.py             /search, /stats, /frame/delete                  *)
(*                                                                         *)
(* Text is a sequence of one-character strings, so that lower(), strip(),  *)
(* split() and the substring test `in` are computed, not assumed.          *)
(* Real numbers are exact fixed-point integers (the unit is stated at each *)
(* definition); rounding of binary floating point is not modelled.         *)
(***************************************************************************)
EXTENDS Integers, Sequences, FiniteSets, TLC

VARIABLES
    table,        \* rows of the LanceDB table "frames", in storage order
    has_table,    \* whether the table "frames" exists in the database
    disk,         \* episode directories present under frames_dir
    intro_cache,  \* the intro/credits cache: [name, data] entries in file order
    last,         \* what the last completed operation was given and returned
    stats_cache,  \* search.py _stats_cache: [data, timestamp]
    clock,        \* time.time(), in seconds
    readers,      \* the /stats requests in flight: reader -> its locals
    computes,     \* calls of _compute_stats made by /stats handlers, in order
    jobs          \* the batch commands in progress: job -> its locals

vars == <<table, has_table, disk, intro_cache, last, stats_cache, clock,
          readers, computes, jobs>>

-----------------------------------------------------------------------------
(* Text *)

\* str.lower() on the characters the model uses
LowerChar(c) ==
    CASE c = "S" -> "s"
      [] c = "E" -> "e"
      [] c = "H" -> "h"
      [] c = "M" -> "m"
      [] c = "B" -> "b"
      [] c = "O" -> "o"
      [] c = "R" -> "r"
      [] OTHER -> c

Lower(s) == [i \in 1..Len(s) |-> LowerChar(s[i])]

IsSpace(c) == c = " "

\* Python's `sub in s` for strings: the empty string is in every string
Contains(sub, s) ==
    \E i \in 0..(Len(s) - Len(sub)) : \A j \in 1..Len(sub) : s[i + j] = sub[j]

RECURSIVE LStrip(_)
LStrip(s) == IF s # <<>> /\ IsSpace(Head(s)) THEN LStrip(Tail(s)) ELSE s

RECURSIVE RStrip(_)
RStrip(s) ==
    IF s # <<>> /\ IsSpace(s[Len(s)]) THEN RStrip(SubSeq(s, 1, Len(s) - 1)) ELSE s

\* str.strip()
Strip(s) == RStrip(LStrip(s))

\* str.split(sep): the pieces between separators, empty pieces kept
RECURSIVE SplitOn(_, _, _)
SplitOn(s, sep, cur) ==
    IF s = <<>> THEN <<cur>>
    ELSE IF Head(s) = sep THEN <<cur>> \o SplitOn(Tail(s), sep, <<>>)
    ELSE SplitOn(Tail(s), sep, Append(cur, Head(s)))

\* str.split(): the maximal runs of non-whitespace, no empty piece
RECURSIVE SplitWs(_, _)
SplitWs(s, cur) ==
    IF s = <<>> THEN (IF cur = <<>> THEN <<>> ELSE <<cur>>)
    ELSE IF IsSpace(Head(s))
         THEN (IF cur = <<>> THEN <<>> ELSE <<cur>>) \o SplitWs(Tail(s), <<>>)
         ELSE SplitWs(Tail(s), Append(cur, Head(s)))

Range(f) == {f[i] : i \in DOMAIN f}

Digits == <<"0", "1", "2", "3", "4", "5", "6", "7", "8", "9">>
IsDigit(c) == \E d \in DOMAIN Digits : Digits[d] = c

\* str(n) of a natural number
RECURSIVE Str(_)
Str(n) == IF n < 10 THEN <<Digits[n + 1]>>
          ELSE Str(n \div 10) \o <<Digits[(n % 10) + 1]>>

\* list.sort(key=...) / sorted(key=...): a stable insertion sort of a sequence
\* of [key, item] pairs by ascending integer key; equal keys keep their order
RECURSIVE InsertByKey(_, _)
InsertByKey(sorted, x) ==
    IF sorted = <<>> THEN <<x>>
    ELSE IF sorted[Len(sorted)].key <= x.key THEN Append(sorted, x)
    ELSE Append(InsertByKey(SubSeq(sorted, 1, Len(sorted) - 1), x),
                sorted[Len(sorted)])

RECURSIVE SortByKey(_)
SortByKey(pairs) ==
    IF pairs = <<>> THEN <<>>
    ELSE InsertByKey(SortByKey(SubSeq(pairs, 1, Len(pairs) - 1)),
                     pairs[Len(pairs)])

Items(pairs) == [i \in 1..Len(pairs) |-> pairs[i].item]

-----------------------------------------------------------------------------
(* Episodes and frame records *)

EpA == <<"s", "0", "1", "e", "0", "1">>
EpB == <<"S", "0", "2", "E", "0", "1">>

\* str(frame_path): the episode directory and the frame file in it
PathOf(episode, frame) == <<episode, frame>>

Record(episode, frame, timestamp, caption, characters, vector) ==
    [episode |-> episode, frame |-> frame, path |-> PathOf(episode, frame),
     timestamp |-> timestamp, caption |-> caption, characters |-> characters,
     vector |-> vector]

NoOp == [op |-> "none"]

-----------------------------------------------------------------------------
(* Bounds of the model *)

\* episode A of the dedup runs has frames 0..MaxFrameNum
MaxFrameNum == 3

\* seconds between extracted frames (frame_interval)
FRAME_INTERVAL == 3

-----------------------------------------------------------------------------
(* dedupe_frames.py *)

\* Embeddings, in two dimensions. V0~V1 and V1~V2 at 0.98, V0 and V2 are not;
\* VZero has norm 0.
V0 == <<10, 0>>
V1 == <<10, 2>>
V2 == <<10, 4>>
VZero == <<0, 0>>
Vectors == {V0, V1, V2, VZero}

Dot(a, b) == a[1] * b[1] + a[2] * b[2]

\* np.dot(a, b) / (norm(a) * norm(b)), kept exact as the pair (dot, squared
\* product of the norms); with a zero norm numpy yields nan and raises nothing
cosine_similarity(v1, v2) ==
    [dot |-> Dot(v1, v2), norms_sq |-> Dot(v1, v1) * Dot(v2, v2)]

SimAtLeastNanSimilar(sim, similarity_threshold) ==
    \/ sim.norms_sq = 0
    \/ sim.dot * sim.dot * 10000
          >= similarity_threshold * similarity_threshold * sim.norms_sq

\* sim >= similarity_threshold, the threshold in hundredths; nan >= x is False
SimAtLeast(sim, similarity_threshold) ==
    /\ sim.norms_sq # 0
    /\ IF similarity_threshold > 0
       THEN /\ sim.dot >= 0
            /\ sim.dot * sim.dot * 10000
                 >= similarity_threshold * similarity_threshold * sim.norms_sq
       ELSE \/ sim.dot >= 0
            \/ sim.dot * sim.dot * 10000
                 <= similarity_threshold * similarity_threshold * sim.norms_sq

MAX_GAP == 6

GapExceededInclusive(time_diff) == time_diff >= MAX_GAP

\* if time_diff > 6
GapExceeded(time_diff) == time_diff > MAX_GAP

\* the loop over frames[1:] of one episode: prev_frame is the frame the next
\* one is compared with, duplicates the list built so far
RECURSIVE DedupLoop(_, _, _, _, _)
DedupLoop(frames, i, prev_frame, duplicates, similarity_threshold) ==
    IF i > Len(frames) THEN duplicates
    ELSE LET frame == frames[i]
             time_diff == frame.timestamp - prev_frame.timestamp
             sim == cosine_similarity(prev_frame.vector, frame.vector)
         IN IF GapExceeded(time_diff)
            THEN DedupLoop(frames, i + 1, frame, duplicates, similarity_threshold)
            ELSE IF SimAtLeast(sim, similarity_threshold)
            THEN DedupLoop(frames, i + 1, prev_frame,
                           Append(duplicates,
                                  [path |-> frame.path,
                                   episode |-> frame.episode,
                                   timestamp |-> frame.timestamp,
                                   prev_timestamp |-> prev_frame.timestamp]),
                           similarity_threshold)
            ELSE DedupLoop(frames, i + 1, frame, duplicates, similarity_threshold)

\* by_episode's keys, in the order of their first row in all_frames
RECURSIVE EpisodeOrder(_, _)
EpisodeOrder(all_frames, seen) ==
    IF all_frames = <<>> THEN <<>>
    ELSE IF Head(all_frames).episode \in seen
         THEN EpisodeOrder(Tail(all_frames), seen)
         ELSE <<Head(all_frames).episode>>
              \o EpisodeOrder(Tail(all_frames), seen \cup {Head(all_frames).episode})

\* frames.sort(key=lambda x: x["timestamp"])
SortByTimestamp(frames) ==
    Items(SortByKey([i \in 1..Len(frames) |->
                       [key |-> frames[i].timestamp, item |-> frames[i]]]))

\* by_episode[episode], sorted by timestamp
EpisodeFrames(all_frames, episode) ==
    SortByTimestamp(SelectSeq(all_frames, LAMBDA r : r.episode = episode))

\* one episode of the loop over by_episode.items()
DedupEpisode(frames, duplicates, similarity_threshold) ==
    IF Len(frames) < 2 THEN duplicates
    ELSE DedupLoop(frames, 2, frames[1], duplicates, similarity_threshold)

\* the loop over by_episode.items()
RECURSIVE DedupEpisodes(_, _, _, _)
DedupEpisodes(all_frames, episodes, duplicates, similarity_threshold) ==
    IF episodes = <<>> THEN duplicates
    ELSE DedupEpisodes(all_frames, Tail(episodes),
             DedupEpisode(EpisodeFrames(all_frames, Head(episodes)),
                          duplicates, similarity_threshold),
             similarity_threshold)

\* table.delete("path = '<path>'"): every row with that path goes
DeletePath(rows, path) == SelectSeq(rows, LAMBDA r : r.path # path)

RECURSIVE DeletePaths(_, _)
DeletePaths(rows, paths) ==
    IF paths = <<>> THEN rows
    ELSE DeletePaths(DeletePath(rows, Head(paths)), Tail(paths))

\* table.search(dummy_vector).limit(row_count).to_list(): every row of the
\* table (the model reads them in storage order)
ScanAll(rows) == rows

DEFAULT_THRESHOLD == 98
Thresholds == {DEFAULT_THRESHOLD, 90}

find_duplicates(similarity_threshold, dry_run) ==
    /\ has_table
    /\ IF Len(table) = 0
       THEN \* len(duplicates) / row_count raises ZeroDivisionError
            /\ last' = [op |-> "find_duplicates", error |-> "ZeroDivisionError"]
            /\ table' = table
       ELSE \E all_frames \in {ScanAll(table)} :
            \E duplicates \in {DedupEpisodes(all_frames,
                                    EpisodeOrder(all_frames, {}), <<>>,
                                    similarity_threshold)} :
            \E paths \in {[i \in 1..Len(duplicates) |-> duplicates[i].path]} :
               /\ table' = IF dry_run THEN table ELSE DeletePaths(table, paths)
               /\ last' = [op |-> "find_duplicates", error |-> "",
                           all_frames |-> all_frames,
                           similarity_threshold |-> similarity_threshold,
                           dry_run |-> dry_run,
                           returned |-> paths]
    /\ UNCHANGED <<has_table, disk, intro_cache, stats_cache, clock, readers,
                   computes, jobs>>

-----------------------------------------------------------------------------
(* The parts of the state an operation's specification leaves at rest *)

\* no batch command is running
NoJobs == <<>>

NumReaders == 2
Readers == 1..NumReaders

\* _stats_cache = {"data": None, "timestamp": 0}; data is <<>> for None and
\* <<d>> for a snapshot d
NoStats == [data |-> <<>>, timestamp |-> 0]
IdleReaders == [r \in Readers |-> [pc |-> "idle"]]

-----------------------------------------------------------------------------
(* SpecDedup: find_duplicates over an index of two episodes *)

\* rows the index may hold, in storage order: frame 1 of episode B, the frames
\* MaxFrameNum..0 of episode A, frame 0 of episode B
Absent == <<>>
DedupSlotsA == [i \in 1..(MaxFrameNum + 1) |-> PathOf(EpA, MaxFrameNum + 1 - i)]
DedupSlots == <<PathOf(EpB, 1)>> \o DedupSlotsA \o <<PathOf(EpB, 0)>>

\* episode B: not indexed, or two frames that are similar at 0.90 and not at 0.98
DedupChoicesB ==
    { [p \in {PathOf(EpB, 0), PathOf(EpB, 1)} |-> Absent],
      [p \in {PathOf(EpB, 0), PathOf(EpB, 1)} |-> IF p[2] = 0 THEN V0 ELSE V2] }

DedupChoicesA == [Range(DedupSlotsA) -> Vectors \cup {Absent}]

DedupTable(a, b) ==
    LET vec(p) == IF p[1] = EpA THEN a[p] ELSE b[p]
        present == SelectSeq(DedupSlots, LAMBDA p : vec(p) # Absent)
    IN [i \in 1..Len(present) |->
          Record(present[i][1], present[i][2], present[i][2] * FRAME_INTERVAL,
                 <<>>, <<>>, vec(present[i]))]

DedupInit ==
    /\ \E a \in DedupChoicesA, b \in DedupChoicesB : table = DedupTable(a, b)
    /\ has_table = TRUE
    /\ disk = {}
    /\ intro_cache = <<>>
    /\ last = NoOp
    /\ stats_cache = NoStats
    /\ clock = 0
    /\ readers = IdleReaders
    /\ computes = <<>>
    /\ jobs = NoJobs

DedupNext ==
    \E similarity_threshold \in Thresholds, dry_run \in BOOLEAN :
        find_duplicates(similarity_threshold, dry_run)

SpecDedup == DedupInit /\ [][DedupNext]_vars

\* What a finished find_duplicates run says about the frames it read
DedupRan == last.op = "find_duplicates" /\ last.error = ""
DedupEpisodesRead == {r.episode : r \in Range(last.all_frames)}
DedupRead(e) == {r \in Range(last.all_frames) : r.episode = e}
DedupKept(r) == r.path \notin Range(last.returned)
DedupEarlier(r) == {q \in DedupRead(r.episode) : q.timestamp < r.timestamp}
\* the anchor of r: the latest kept frame of r's episode before r
DedupAnchors(r) == {a \in DedupEarlier(r) : DedupKept(a)}
DedupAnchor(r) ==
    CHOOSE a \in DedupAnchors(r) : \A b \in DedupAnchors(r) : b.timestamp <= a.timestamp
DedupSimilar(a, r) ==
    SimAtLeast(cosine_similarity(a.vector, r.vector), last.similarity_threshold)

\* C1: find_duplicates marks a frame f as a duplicate exactly when f is not the
\* first frame of its episode, f.timestamp - anchor.timestamp <= 6 and
\* cosine_similarity(anchor, f) >= threshold, the anchor being the latest frame
\* before f that was kept (the first frame is always kept).
C1_DuplicateIffNearSimilarAnchor ==
    DedupRan =>
      \A e \in DedupEpisodesRead : \A r \in DedupRead(e) :
        IF DedupEarlier(r) = {} THEN DedupKept(r)
        ELSE /\ DedupAnchors(r) # {}
             /\ ~DedupKept(r) <=>
                  /\ r.timestamp - DedupAnchor(r).timestamp <= 6
                  /\ DedupSimilar(DedupAnchor(r), r)

\* C1 witness: one run marks a duplicate, keeps a frame for being unlike its
\* anchor and keeps a frame for lying more than 6 s after its anchor
C1_Witness ==
    /\ DedupRan
    /\ \E r, k, g \in Range(last.all_frames) :
         /\ ~DedupKept(r)
         /\ DedupKept(k) /\ DedupEarlier(k) # {}
         /\ k.timestamp - DedupAnchor(k).timestamp <= 6
         /\ DedupKept(g) /\ DedupEarlier(g) # {}
         /\ g.timestamp - DedupAnchor(g).timestamp > 6
         /\ DedupSimilar(DedupAnchor(g), g)

\* the frame just before r in its episode
DedupPrev(r) ==
    CHOOSE q \in DedupEarlier(r) : \A b \in DedupEarlier(r) : b.timestamp <= q.timestamp
\* r begins a run: the first frame of the episode, or more than 6 s after the
\* frame before it
DedupRunStart(r) ==
    DedupEarlier(r) = {} \/ r.timestamp - DedupPrev(r).timestamp > 6
\* the frames from a to b form a run: each at most 6 s after the one before it
\* and each similar to a
DedupRun(a, b) ==
    {r \in DedupRead(a.episode) : a.timestamp <= r.timestamp /\ r.timestamp <= b.timestamp}
DedupIsRun(a, b) ==
    /\ a.timestamp <= b.timestamp
    /\ \A r \in DedupRun(a, b) \ {a} :
         /\ r.timestamp - DedupPrev(r).timestamp <= 6
         /\ DedupSimilar(a, r)

\* C2: of any run of consecutive frames of one episode, each at most 6 s after
\* the previous one and each similar (>= threshold) to the run's first frame,
\* find_duplicates keeps exactly one frame, whatever the run's length or
\* duration. (Stated for runs that begin at the first frame of the episode or
\* after a gap of more than 6 s.)
C2_RunKeepsExactlyOne ==
    DedupRan =>
      \A e \in DedupEpisodesRead : \A a, b \in DedupRead(e) :
        (DedupRunStart(a) /\ DedupIsRun(a, b)) =>
           Cardinality({r \in DedupRun(a, b) : DedupKept(r)}) = 1

\* the embedding has norm 0
ZeroNorm(v) == v[1] * v[1] + v[2] * v[2] = 0

\* C18: a frame is never marked as a duplicate when its embedding or its
\* anchor's embedding has norm 0; a zero-norm embedding makes the run raise
\* no error (the only run that fails is the one over an empty index), and
\* the frames after it are still checked.
C18_ZeroNormNotSimilar ==
    /\ (last.op = "find_duplicates" /\ last.error # "") => table = <<>>
    /\ DedupRan =>
          \A r \in Range(last.all_frames) :
             (\/ ZeroNorm(r.vector)
              \/ (DedupAnchors(r) # {} /\ ZeroNorm(DedupAnchor(r).vector)))
                => DedupKept(r)

\* a run that compared a frame with a zero-norm anchor within 6 s, kept it,
\* and marked the frame after it as a duplicate
C18_Witness ==
    /\ DedupRan
    /\ \E z, r, d \in Range(last.all_frames) :
         /\ ZeroNorm(z.vector)
         /\ DedupKept(r) /\ DedupAnchors(r) # {} /\ DedupAnchor(r) = z
         /\ r.timestamp - z.timestamp <= 6
         /\ ~DedupKept(d) /\ DedupAnchor(d) = r

-----------------------------------------------------------------------------
(* index.py and index_new_episodes.py *)

EpC == <<"s", "0", "1", "e", "0", "2">>
Episodes == {EpA, EpB, EpC}

\* sorted(frames_path.iterdir()): "S02E01" < "s01e01" < "s01e02"
DirOrder == <<EpB, EpA, EpC>>

\* episode_dir.glob("*.jpg"): ffmpeg writes frame_00001.jpg, frame_00002.jpg, ...
\* (episode C is shorter than the default intro)
FramesOnDisk(episode) ==
    IF episode = EpA THEN 1..46 ELSE IF episode = EpB THEN 1..45 ELSE 1..30

\* the collaborators: one image always gets the same embedding, caption and
\* character list
EmbedImage(path) == IF path[2] % 2 = 0 THEN V0 ELSE V1
CapHomer == <<"h","o","m","e","r"," ","e","a","t","i","n","g"," ","a"," ",
              "d","o","n","u","t"," ","h","a","p","p","i","l","y">>
CapBart == <<"b","a","r","t"," ","a","t"," ","a"," ","b","a","r">>
GenerateCaption(path) == IF path[2] % 2 = 0 THEN CapBart ELSE CapHomer
CharsHomer == <<"H","o","m","e","r",","," ","M","a","r","g","e">>
DetectCharacters(path) == IF path[2] % 2 = 0 THEN <<>> ELSE CharsHomer

\* int(x) of a number given in tenths: truncation toward zero
IntTrunc(tenths) == IF tenths >= 0 THEN tenths \div 10 ELSE -((-tenths) \div 10)

\* data.get(key, default), the default in whole seconds
Get(data, key, default) == IF key \in DOMAIN data THEN data[key] ELSE default * 10

DEFAULT_INTRO == 90
DEFAULT_CREDITS == 40

CacheEntryResult(data) ==
    <<IntTrunc(Get(data, "intro_end", DEFAULT_INTRO)),
      IntTrunc(Get(data, "credits_start", -DEFAULT_CREDITS))>>

\* the first entry, in dict order, whose name partially matches filename
RECURSIVE PartialMatch(_, _)
PartialMatch(filename, cache) ==
    IF cache = <<>> THEN <<>>
    ELSE LET cached_name == Head(cache).name
         IN IF \/ Contains(SplitOn(filename, ".", <<>>)[1], cached_name)
               \/ Contains(SplitOn(cached_name, ".", <<>>)[1], filename)
            THEN <<Head(cache)>>
            ELSE PartialMatch(filename, Tail(cache))

\* index.py get_episode_timestamps: (intro_end, credits_start) in seconds
get_episode_timestamps(filename, cache) ==
    LET exact == SelectSeq(cache, LAMBDA c : c.name = filename)
        partial == PartialMatch(filename, cache)
    IN IF exact # <<>> THEN CacheEntryResult(exact[1].data)
       ELSE IF partial # <<>> THEN CacheEntryResult(partial[1].data)
       ELSE <<DEFAULT_INTRO, -DEFAULT_CREDITS>>

\* max(int(p.stem.split("_")[1]) for p in frame_paths) * frame_interval
EpisodeLength(episode) ==
    (CHOOSE n \in FramesOnDisk(episode) : \A k \in FramesOnDisk(episode) : k <= n)
      * FRAME_INTERVAL

\* the record built for one admitted frame
FrameRecord(episode, frame) ==
    Record(episode, frame, frame * FRAME_INTERVAL,
           GenerateCaption(PathOf(episode, frame)),
           DetectCharacters(PathOf(episode, frame)),
           EmbedImage(PathOf(episode, frame)))

\* the frames of a set, as records in the order of sorted(frame_paths)
RECURSIVE RecordsOf(_, _)
RecordsOf(episode, frames) ==
    IF frames = {} THEN <<>>
    ELSE LET f == CHOOSE n \in frames : \A k \in frames : n <= k
         IN <<FrameRecord(episode, f)>> \o RecordsOf(episode, frames \ {f})

\* index_frames, one episode: the records of the frames that pass the intro
\* and credits tests
IndexFramesRecords(episode, cache) ==
    LET ts == get_episode_timestamps(episode, cache)
        intro_end == ts[1]
        credits_start == IF ts[2] < 0 THEN EpisodeLength(episode) + ts[2] ELSE ts[2]
    IN RecordsOf(episode,
         {f \in FramesOnDisk(episode) :
            /\ ~(f * FRAME_INTERVAL <= intro_end)
            /\ ~(f * FRAME_INTERVAL >= credits_start)})

EpisodeDirs(frames_dir) == SelectSeq(DirOrder, LAMBDA d : d \in frames_dir)

\* the loop over episode_dirs of index_frames: the rows after it
RECURSIVE IndexFramesLoop(_, _, _)
IndexFramesLoop(episode_dirs, cache, rows) ==
    IF episode_dirs = <<>> THEN rows
    ELSE IndexFramesLoop(Tail(episode_dirs), cache,
                         rows \o IndexFramesRecords(Head(episode_dirs), cache))

\* the index never grows beyond MaxRows rows in the model
MaxRows == 6

Unchanged_Stats == UNCHANGED <<stats_cache, clock, readers, computes, jobs>>

\* index.py process_videos: the frames of one more episode are extracted
process_videos(episode) ==
    /\ episode \notin disk
    /\ disk' = disk \cup {episode}
    /\ last' = [op |-> "process_videos", episode |-> episode]
    /\ UNCHANGED <<table, has_table, intro_cache>>
    /\ Unchanged_Stats

\* index.py index_frames: every episode directory is indexed and appended (the
\* table is created by the first episode that yields records)
index_frames ==
    \E rows \in {IndexFramesLoop(EpisodeDirs(disk), intro_cache, table)} :
       /\ Len(rows) <= MaxRows
       /\ table' = rows
       /\ has_table' = (has_table \/ rows # table)
       /\ last' = [op |-> "index_frames", error |-> "",
                   added |-> SubSeq(rows, Len(table) + 1, Len(rows))]
       /\ UNCHANGED <<disk, intro_cache>>
       /\ Unchanged_Stats

\* existing_paths and existing_episodes, read once at the start of the run
ExistingPaths(exists, rows) ==
    IF exists /\ Len(rows) > 0 THEN {r.path : r \in Range(rows)} ELSE {}

ExistingEpisodesNone(exists, rows) == {}

ExistingEpisodes(exists, rows) ==
    IF exists /\ Len(rows) > 0 THEN {r.episode : r \in Range(rows)} ELSE {}

\* episode_dirs after the --season filter
SeasonDirs(episode_dirs, season_filter) ==
    IF season_filter # <<>>
    THEN SelectSeq(episode_dirs, LAMBDA d : Contains(Lower(season_filter), Lower(d)))
    ELSE episode_dirs

NewEpisodes(episode_dirs, existing_episodes) ==
    SelectSeq(episode_dirs, LAMBDA d : d \notin existing_episodes)

\* index_new_episodes, one episode: frames already indexed are skipped, then
\* the default intro (90 s) and credits (last 40 s) are skipped
IndexNewRecords(episode, existing_paths) ==
    LET intro_end == 90
        credits_start == EpisodeLength(episode) - 40
    IN RecordsOf(episode,
         {f \in FramesOnDisk(episode) :
            /\ PathOf(episode, f) \notin existing_paths
            /\ ~(f * FRAME_INTERVAL <= intro_end \/ f * FRAME_INTERVAL >= credits_start)})

\* the loop over new_episodes: the rows after it
RECURSIVE IndexNewLoop(_, _, _)
IndexNewLoop(new_episodes, existing_paths, rows) ==
    IF new_episodes = <<>> THEN rows
    ELSE IndexNewLoop(Tail(new_episodes), existing_paths,
                      rows \o IndexNewRecords(Head(new_episodes), existing_paths))

SeasonArgs == {<<>>, <<"s", "0", "1">>}

index_new_episodes(season_filter) ==
    \E existing_paths \in {ExistingPaths(has_table, table)},
       existing_episodes \in {ExistingEpisodes(has_table, table)},
       episode_dirs \in {SeasonDirs(EpisodeDirs(disk), season_filter)} :
    \E new_episodes \in {NewEpisodes(episode_dirs, existing_episodes)} :
    \E rows \in {IndexNewLoop(new_episodes, existing_paths, table)} :
       /\ Len(rows) <= MaxRows
       /\ IF new_episodes = <<>>
          THEN \* "No new episodes to index!"
               /\ table' = table
               /\ last' = [op |-> "index_new_episodes", error |-> "",
                           season_filter |-> season_filter, added |-> <<>>]
          ELSE IF ~has_table
          THEN \* db.open_table("frames") fails, or `table` is unbound at the
               \* final count_rows()
               /\ table' = table
               /\ last' = [op |-> "index_new_episodes", error |-> "no table",
                           season_filter |-> season_filter, added |-> <<>>]
          ELSE /\ table' = rows
               /\ last' = [op |-> "index_new_episodes", error |-> "",
                           season_filter |-> season_filter,
                           added |-> SubSeq(rows, Len(table) + 1, Len(rows))]
       /\ UNCHANGED <<has_table, disk, intro_cache>>
       /\ Unchanged_Stats

\* the text of a stored path: the episode directory, "/", the frame file
PathString(path) == path[1] \o <<"/">> \o Str(path[2])

OrPathNe == <<"o","r"," ","p","a","t","h"," ","!","=">>

\* the filter f"path = '{path}'" as the database parses it. The text between
\* the first quote and the next one is a string literal, and two adjacent
\* quotes inside a literal stand for one quote character:
\*   no quote in path             path = 'path'
\*   A''B                         path = 'A'B' (literal with one quote)
\*   A' OR path != 'B             path = 'A' OR path != 'B'
\*   an odd number of quotes      unterminated literal: the parse fails
\* (texts with two quotes of another shape are taken not to parse)
PathFilter(path) ==
    LET pieces == SplitOn(path, "'", <<>>)
    IN IF Len(pieces) = 1
       THEN [ok |-> TRUE, eq |-> {path}, ne |-> {}]
       ELSE IF Len(pieces) = 3 /\ pieces[2] = <<>>
       THEN [ok |-> TRUE, eq |-> {pieces[1] \o <<"'">> \o pieces[3]}, ne |-> {}]
       ELSE IF Len(pieces) = 3 /\ Lower(Strip(pieces[2])) = OrPathNe
       THEN [ok |-> TRUE, eq |-> {pieces[1]}, ne |-> {pieces[3]}]
       ELSE [ok |-> FALSE, eq |-> {}, ne |-> {}]

\* whether a row satisfies a parsed filter
Satisfies(r, filter) ==
    \/ PathString(r.path) \in filter.eq
    \/ \E b \in filter.ne : PathString(r.path) # b

\* search.py POST /frame/delete: status 500 when table.delete raises
delete_frame(path) ==
    /\ has_table
    /\ \E filter \in {PathFilter(path)} :
         IF filter.ok
         THEN /\ table' = SelectSeq(table, LAMBDA r : ~Satisfies(r, filter))
              /\ last' = [op |-> "delete_frame", path |-> path, status |-> 200,
                          success |-> TRUE]
         ELSE /\ table' = table
              /\ last' = [op |-> "delete_frame", path |-> path, status |-> 500,
                          success |-> FALSE]
    /\ UNCHANGED <<has_table, disk, intro_cache>>
    /\ Unchanged_Stats

-----------------------------------------------------------------------------
(* SpecIngest: extraction, full and incremental indexing, and deletes *)

MkvName(episode) == episode \o <<".", "m", "k", "v">>

\* no cache; a cache with a late intro and an absolute credits start for
\* episode A; a cache with an early intro and a credits start counted from the
\* end for episode A (values in tenths of a second)
CacheLateIntro ==
    << [name |-> MkvName(EpA),
        data |-> [intro_end |-> 955, credits_start |-> 970, duration |-> 1380]] >>
CacheFromEnd ==
    << [name |-> MkvName(EpA),
        data |-> [intro_end |-> 899, credits_start |-> -405, duration |-> 1380]] >>
Caches == {<<>>, CacheLateIntro, CacheFromEnd}

IngestInit ==
    /\ table = <<>>
    /\ has_table = FALSE
    /\ disk = {}
    /\ intro_cache \in Caches
    /\ last = NoOp
    /\ stats_cache = NoStats
    /\ clock = 0
    /\ readers = IdleReaders
    /\ computes = <<>>
    /\ jobs = NoJobs

\* a path that is never indexed
StrayPath == PathString(PathOf(EpC, 1))

IngestNext ==
    \/ \E episode \in Episodes : process_videos(episode)
    \/ index_frames
    \/ \E season_filter \in SeasonArgs : index_new_episodes(season_filter)
    \/ \E path \in {PathString(r.path) : r \in Range(table)} \cup {StrayPath} :
          delete_frame(path)
    \/ \E similarity_threshold \in Thresholds, dry_run \in BOOLEAN :
          find_duplicates(similarity_threshold, dry_run)

SpecIngest == IngestInit /\ [][IngestNext]_vars

\* C3: no two records of the index have the same path, after any sequence of
\* index_frames runs, index_new_episodes runs and deletes.
C3_PathsUnique ==
    \A i, j \in 1..Len(table) : table[i].path = table[j].path => i = j

\* an episode has been ingested: it has a record in the index, or none of its
\* frames lies between the default intro end and credits start
DefaultAdmissible(episode) ==
    {f \in FramesOnDisk(episode) :
        90 < f * FRAME_INTERVAL /\ f * FRAME_INTERVAL < EpisodeLength(episode) - 40}
AlreadyIngested(episode) ==
    \/ \E r \in Range(table) : r.episode = episode
    \/ DefaultAdmissible(episode) = {}

\* C4: an index_new_episodes run over a frames directory whose every episode
\* has already been ingested appends nothing: the index after the run is the
\* index before it.
C4_ReingestAppendsNothing ==
    [][ ( /\ last'.op = "index_new_episodes"
          /\ \A e \in disk : AlreadyIngested(e) )
        => table' = table ]_vars

\* C4 witness: a run has ended over a directory of three episodes, all
\* ingested, one of them with an admissible frame that is not in the index
C4_Witness ==
    /\ last.op = "index_new_episodes"
    /\ disk = Episodes
    /\ \A e \in disk : AlreadyIngested(e)
    /\ \E e \in disk : \E f \in DefaultAdmissible(e) :
         /\ \A r \in Range(table) : r.path # PathOf(e, f)
         /\ \E r \in Range(table) : r.episode = e

\* the cached boundaries of an episode, in tenths of a second: the entry kept
\* under the episode's video file name, a negative credits start counted from
\* the episode's end; without an entry, 90 s and 40 s before the end
CachedEntries(episode) ==
    {i \in 1..Len(intro_cache) : SplitOn(intro_cache[i].name, ".", <<>>)[1] = episode}
BoundaryIntroEnd(episode) ==
    IF CachedEntries(episode) = {} THEN 900
    ELSE intro_cache[CHOOSE i \in CachedEntries(episode) : TRUE].data.intro_end
BoundaryCreditsStart(episode) ==
    IF CachedEntries(episode) = {} THEN (EpisodeLength(episode) - 40) * 10
    ELSE LET c == intro_cache[CHOOSE i \in CachedEntries(episode) : TRUE].data.credits_start
         IN IF c < 0 THEN EpisodeLength(episode) * 10 + c ELSE c

\* C5: every record appended by ingestion satisfies
\* intro_end < timestamp < credits_start for its episode's boundaries, a
\* negative cached credits_start resolved to episode_length + credits_start.
C5_RowsInsideBoundaries ==
    \A r \in Range(table) :
        /\ BoundaryIntroEnd(r.episode) < r.timestamp * 10
        /\ r.timestamp * 10 < BoundaryCreditsStart(r.episode)

\* C19: every record index_new_episodes appends has passed the Dedup Engine:
\* among the records of one run the engine, at its default threshold, finds
\* no frame to drop. (The Boundary Trimmer is the subject of C5; the run
\* never consults the Blank-Frame Classifier either.)
C19_AppendedPassedDedup ==
    (last.op = "index_new_episodes" /\ last.error = "") =>
        DedupEpisodes(last.added, EpisodeOrder(last.added, {}), <<>>,
                      DEFAULT_THRESHOLD) = <<>>

\* a step that is a find_duplicates run with deletion enabled
DedupDeletes ==
    last'.op = "find_duplicates" /\ last'.error = "" /\ ~last'.dry_run

\* the first frames of an episode: its records of the least timestamp
FirstFrames(rows, episode) ==
    {r \in Range(rows) :
        /\ r.episode = episode
        /\ \A q \in Range(rows) : q.episode = episode => r.timestamp <= q.timestamp}

\* C26: a find_duplicates run with deletion keeps the first frame of every
\* episode, and a run that follows a deleting run with the same threshold
\* reports no duplicate.
C26_DedupIdempotent ==
    [][DedupDeletes =>
         /\ \A r \in Range(table) :
               r \in FirstFrames(table, r.episode) =>
                  /\ r.path \notin Range(last'.returned)
                  /\ r \in Range(table')
         /\ ( /\ last.op = "find_duplicates"
              /\ last.error = ""
              /\ ~last.dry_run
              /\ last.similarity_threshold = last'.similarity_threshold )
            => last'.returned = <<>>]_vars

-----------------------------------------------------------------------------
(* search.py GET /search *)

\* the largest `limit` a request asks for
MaxLimit == 2

\* Distances are in millionths; scores in units of 1/2,000,000, so that
\* 1 - distance/2 is 2,000,000 - distance.
Min(a, b) == IF a < b THEN a ELSE b
Max(a, b) == IF a > b THEN a ELSE b

\* table.search(query_embedding).limit(k).to_list(): the k rows nearest to the
\* query, nearest first, each with its _distance (dist: row number -> distance
\* in hundredths, fixed by the query's embedding)
Nearest(sorted, k) == SubSeq(sorted, 1, Min(k, Len(sorted)))

KNN(rows, dist, k) ==
    Nearest(Items(SortByKey([i \in 1..Len(rows) |->
                [key |-> dist[i],
                 item |-> [row |-> rows[i], _distance |-> dist[i] * 10000]]])), k)

\* set(s.strip().lower() for s in season.split(','))
SeasonFilters(season) ==
    IF season # <<>>
    THEN {Lower(Strip(x)) : x \in Range(SplitOn(season, ",", <<>>))}
    ELSE {}

\* [r for r in results if any(sf in r["episode"].lower() for sf in season_filters)]
SeasonFiltered(results, season_filters) ==
    IF season_filters # {}
    THEN SelectSeq(results, LAMBDA r :
            \E sf \in season_filters : Contains(sf, Lower(r.row.episode)))
    ELSE results

\* sum(1 for word in query_words if word in text)
WordMatches(query_words, text) ==
    Cardinality({word \in query_words : Contains(word, text)})

BoostMultiplierUnclamped(rate, matches) == 100 - rate * matches

\* max(0.1, 1 - rate * matches), in hundredths (rate 15 for 0.15, 30 for 0.3)
BoostMultiplier(rate, matches) == Max(10, 100 - rate * matches)

\* visual mode, one candidate: r["_distance"] after the caption and the
\* character boost
VisualBoost(r, query_words) ==
    LET caption == Lower(r.row.caption)
        characters == Lower(r.row.characters)
        caption_matches == WordMatches(query_words, caption)
        d1 == IF caption_matches > 0
              THEN (r._distance * BoostMultiplier(15, caption_matches)) \div 100
              ELSE r._distance
        character_matches == WordMatches(query_words, characters)
        d2 == IF character_matches > 0
              THEN (d1 * BoostMultiplier(30, character_matches)) \div 100
              ELSE d1
    IN [r EXCEPT !._distance = d2]

QuoteScoreNoCap(base_score, word_matches, phrase_match) ==
    IF phrase_match THEN 1900000
    ELSE IF word_matches > 0 THEN base_score + word_matches * 400000
    ELSE (base_score * 3) \div 10

\* the score of quote mode: 0.95, min(0.9, base + 0.2 * matches) or base * 0.3
QuoteScore(base_score, word_matches, phrase_match) ==
    IF phrase_match THEN 1900000
    ELSE IF word_matches > 0 THEN Min(1800000, base_score + word_matches * 400000)
    ELSE (base_score * 3) \div 10

\* quote mode, one candidate: {**r, "_score": score}
QuoteScored(r, query_lower, query_words) ==
    LET caption == Lower(r.row.caption)
        base_score == Max(0, 2000000 - r._distance)
        word_matches == WordMatches(query_words, caption)
        phrase_match == Contains(query_lower, caption)
    IN [row |-> r.row, _distance |-> r._distance,
        _score |-> QuoteScore(base_score, word_matches, phrase_match)]

\* max(0.0, min(1.0, 1 - distance / 2))
VisualScore(distance) == Max(0, Min(2000000, 2000000 - distance))

RankKeyAscending(mode, r) == IF mode = "quote" THEN r._score ELSE r._distance

\* the sort key: descending _score in quote mode, ascending _distance otherwise
RankKey(mode, r) == IF mode = "quote" THEN -r._score ELSE r._distance

TopAll(sorted, limit) == sorted

\* scored_results[:limit], sorted(...)[:limit]
Top(sorted, limit) == SubSeq(sorted, 1, Min(limit, Len(sorted)))

Ranked(mode, results, limit) ==
    Top(Items(SortByKey([i \in 1..Len(results) |->
            [key |-> RankKey(mode, results[i]), item |-> results[i]]])), limit)

\* get_image_urls without a CDN
ImageUrls(episode, frame) ==
    [thumb_url |-> <<"thumbs", episode, frame>>,
     image_url |-> <<"frames", episode, frame>>]

ResultOf(r, score) ==
    [episode |-> r.row.episode, frame |-> r.row.frame, path |-> r.row.path,
     timestamp |-> r.row.timestamp, score |-> score,
     thumb_url |-> ImageUrls(r.row.episode, r.row.frame).thumb_url,
     image_url |-> ImageUrls(r.row.episode, r.row.frame).image_url]

Scored(mode, results, query_lower, query_words) ==
    IF mode = "quote"
    THEN [i \in 1..Len(results) |-> QuoteScored(results[i], query_lower, query_words)]
    ELSE [i \in 1..Len(results) |-> VisualBoost(results[i], query_words)]

Response(mode, top) ==
    [i \in 1..Len(top) |->
        ResultOf(top[i], IF mode = "quote" THEN top[i]._score
                         ELSE VisualScore(top[i]._distance))]

\* the handler of a pending GET /search request (each \E binds the one value
\* of a local variable of the handler)
search ==
    /\ last.op = "GET /search"
    /\ \E season_filters \in {SeasonFilters(last.season)},
          query_lower \in {Lower(last.q)} :
       \E query_words \in {Range(SplitWs(query_lower, <<>>))},
          fetch_limit \in {IF last.mode = "quote" THEN last.limit * 10
                           ELSE IF season_filters # {} THEN last.limit * 10
                           ELSE last.limit * 3} :
       \E fetched \in {KNN(table, last.dist, fetch_limit)} :
       \E results \in {SeasonFiltered(fetched, season_filters)} :
       \E scored \in {Scored(last.mode, results, query_lower, query_words)} :
       \E top \in {Ranked(last.mode, scored, last.limit)} :
          IF Strip(last.q) = <<>>
          THEN last' = [op |-> "search", status |-> 400, request |-> last]
          ELSE last' = [op |-> "search", status |-> 200, request |-> last,
                        fetched |-> fetched, scored |-> scored,
                        response |-> Response(last.mode, top)]
    /\ UNCHANGED <<table, has_table, disk, intro_cache>>
    /\ Unchanged_Stats

-----------------------------------------------------------------------------
(* SpecSearch: one /search request against an index of four frames *)

SearchTable ==
    <<FrameRecord(EpA, 31), FrameRecord(EpA, 32),
      FrameRecord(EpB, 31), FrameRecord(EpB, 32)>>

QHomerEatingDonut == <<"h","o","m","e","r"," ","e","a","t","i","n","g"," ",
                       "d","o","n","u","t">>
QBartBar == <<"B","a","r","t"," ","b","a","r">>
QLetters == <<"h"," ","o"," ","m"," ","e"," ","r"," ","a"," ","t">>
QADonut == <<"a"," ","d","o","n","u","t">>
QBlank == <<" ">>
Queries == {QHomerEatingDonut, QBartBar, QLetters, QADonut, QBlank}

\* no season parameter, "s01", "s01," and " S02"
Seasons == {<<>>, <<"s","0","1">>, <<"s","0","1",",">>, <<" ","S","0","2">>}

\* _distance values, in hundredths
Distances == {0, 50, 120, 250}

SearchInit ==
    /\ table = SearchTable
    /\ has_table = TRUE
    /\ disk = {EpA, EpB}
    /\ intro_cache = <<>>
    /\ \E q \in Queries, limit \in 1..MaxLimit, mode \in {"visual", "quote"},
          season \in Seasons, dist \in [1..Len(SearchTable) -> Distances] :
         last = [op |-> "GET /search", q |-> q, limit |-> limit, mode |-> mode,
                 season |-> season, dist |-> dist]
    /\ stats_cache = NoStats
    /\ clock = 0
    /\ readers = IdleReaders
    /\ computes = <<>>
    /\ jobs = NoJobs

SearchNext == search

SpecSearch == SearchInit /\ [][SearchNext]_vars

\* a finished /search request that was answered with a list of results
SearchAnswered(mode) ==
    /\ last.op = "search"
    /\ last.status = 200
    /\ last.request.mode = mode

\* the candidate of the given path as the index returned it, before any
\* boost was applied
AsFetched(path) == CHOOSE f \in Range(last.fetched) : f.row.path = path

\* the words of the request's query
RequestWords == Range(SplitWs(Lower(last.request.q), <<>>))

\* c and h of a candidate: the query words found in its caption and in its
\* character labels
CaptionHits(row) == WordMatches(RequestWords, Lower(row.caption))
CharacterHits(row) == WordMatches(RequestWords, Lower(row.characters))

\* d * max(0.1, 1 - 0.15 c) * max(0.1, 1 - 0.30 h) in millionths, for a raw
\* distance d given in millionths (all raw distances are whole hundredths)
Adjusted(d, c, h) ==
    (d \div 10000) * (IF 100 - 15 * c < 10 THEN 10 ELSE 100 - 15 * c)
                   * (IF 100 - 30 * h < 10 THEN 10 ELSE 100 - 30 * h)

\* clamp01(1 - adjusted / 2), in units of 1/2,000,000
Clamp01Score(adjusted) ==
    IF adjusted >= 2000000 THEN 0
    ELSE IF adjusted <= 0 THEN 2000000 ELSE 2000000 - adjusted

\* C6: in visual mode every candidate with raw distance d, c caption hits and
\* h character hits is ranked by the adjusted distance
\* d * max(0.1, 1 - 0.15 c) * max(0.1, 1 - 0.30 h), which for d > 0 is
\* strictly positive and at most d; every returned result carries the score
\* clamp01(1 - adjusted / 2).
C6_VisualAdjustedDistance ==
    SearchAnswered("visual") =>
        /\ \A i \in DOMAIN last.scored :
             LET row == last.scored[i].row
                 d == AsFetched(row.path)._distance
                 adjusted == Adjusted(d, CaptionHits(row), CharacterHits(row))
             IN /\ last.scored[i]._distance = adjusted
                /\ d > 0 => (0 < adjusted /\ adjusted <= d)
        /\ \A i \in DOMAIN last.response :
             LET f == AsFetched(last.response[i].path)
             IN last.response[i].score =
                  Clamp01Score(Adjusted(f._distance, CaptionHits(f.row),
                                        CharacterHits(f.row)))

\* the example: raw distance 0.5, two caption hits and no character hit give
\* the adjusted distance 0.35 and the score 0.825
C6_Witness ==
    /\ SearchAnswered("visual")
    /\ \E i \in DOMAIN last.response :
         LET f == AsFetched(last.response[i].path)
         IN /\ f._distance = 500000
            /\ CaptionHits(f.row) = 2
            /\ CharacterHits(f.row) = 0
            /\ last.response[i].score = 1650000

\* C7: in quote mode every candidate's score follows from
\* base = max(0, 1 - distance / 2): 0.95 when the lower-cased query occurs in
\* the caption, else min(0.9, base + 0.2 * word_matches) when some query word
\* occurs in it, else base * 0.3; the distance itself is left without any
\* discount, and a returned result carries the score of its candidate.
C7_QuoteScoreRule ==
    SearchAnswered("quote") =>
        /\ \A i \in DOMAIN last.scored :
             LET row == last.scored[i].row
                 d == AsFetched(row.path)._distance
                 base == IF d >= 2000000 THEN 0 ELSE 2000000 - d
                 w == CaptionHits(row)
                 raised == base + 400000 * w
             IN /\ last.scored[i]._distance = d
                /\ last.scored[i]._score =
                     IF Contains(Lower(last.request.q), Lower(row.caption))
                     THEN 1900000
                     ELSE IF w > 0
                          THEN (IF raised > 1800000 THEN 1800000 ELSE raised)
                          ELSE (3 * base) \div 10
        /\ \A i \in DOMAIN last.response :
             \E j \in DOMAIN last.scored :
                /\ last.scored[j].row.path = last.response[i].path
                /\ last.scored[j]._score = last.response[i].score

\* the phrase is absent from the caption, all three words of the query are in
\* it, and the raised score is held at 0.9
C7_Witness ==
    /\ SearchAnswered("quote")
    /\ \E i \in DOMAIN last.response :
         LET f == AsFetched(last.response[i].path)
         IN /\ ~Contains(Lower(last.request.q), Lower(f.row.caption))
            /\ CaptionHits(f.row) = 3
            /\ (2000000 - f._distance) + 3 * 400000 > 1800000
            /\ last.response[i].score = 1800000

\* a scored candidate ranks strictly better than another
Better(mode, a, b) ==
    IF mode = "quote" THEN a._score > b._score ELSE a._distance < b._distance

\* the scored candidates the response leaves out
Omitted ==
    {j \in DOMAIN last.scored :
        \A i \in DOMAIN last.response :
            last.response[i].path # last.scored[j].row.path}

\* C8: the response holds the best `limit` of the season-filtered candidates:
\* at most `limit` results (all of them when there are fewer), each one a
\* scored candidate listed once, scores non-increasing along the list, and
\* no omitted candidate strictly better than a returned one.
C8_TopLimitInRankOrder ==
    (last.op = "search" /\ last.status = 200) =>
        /\ Len(last.response) <= last.request.limit
        /\ Len(last.response) =
             (IF Len(last.scored) < last.request.limit
              THEN Len(last.scored) ELSE last.request.limit)
        /\ \A i, k \in DOMAIN last.response :
             /\ i < k => last.response[i].score >= last.response[k].score
             /\ i # k => last.response[i].path # last.response[k].path
        /\ \A i \in DOMAIN last.response :
             \E j \in DOMAIN last.scored :
                last.scored[j].row.path = last.response[i].path
        /\ \A j \in Omitted :
             \A k \in DOMAIN last.scored :
                k \notin Omitted =>
                   ~Better(last.request.mode, last.scored[j], last.scored[k])

\* more candidates than `limit`, and the response leaves out a strictly worse
\* one
C8_Witness ==
    /\ last.op = "search"
    /\ last.status = 200
    /\ Len(last.scored) > last.request.limit
    /\ Len(last.response) = last.request.limit
    /\ \E j \in Omitted :
         \E k \in DOMAIN last.scored :
            /\ k \notin Omitted
            /\ Better(last.request.mode, last.scored[k], last.scored[j])

\* the season substrings the caller listed: the non-empty pieces between the
\* commas, stripped and lower-cased
ListedSeasons(season) ==
    {Lower(Strip(x)) : x \in {y \in Range(SplitOn(season, ",", <<>>)) :
                                 Strip(y) # <<>>}}

\* C9: with a season parameter, every returned result has an episode that
\* contains, case-insensitively, one of the listed season substrings ("s01,"
\* lists only "s01"), and only candidates that pass were scored.
C9_SeasonFilterHonoured ==
    (last.op = "search" /\ last.status = 200 /\ last.request.season # <<>>) =>
        /\ \A i \in DOMAIN last.response :
             \E sf \in ListedSeasons(last.request.season) :
                Contains(sf, Lower(last.response[i].episode))
        /\ \A j \in DOMAIN last.scored :
             \E sf \in ListedSeasons(last.request.season) :
                Contains(sf, Lower(last.scored[j].row.episode))

\* C23: the handler asks the index for limit * 3 candidates when the request
\* has no season parameter and for limit * 10 when it has one (the index
\* returns as many as it holds when it holds fewer), and a response shorter
\* than `limit` is an ordinary 200 response.
C23_FetchThreeOrTenTimes ==
    (last.op = "search" /\ last.status = 200) =>
        /\ Len(last.fetched) =
              Min(Len(table), IF last.request.season = <<>>
                              THEN last.request.limit * 3
                              ELSE last.request.limit * 10)
        /\ Len(last.response) <= last.request.limit

\* C24: every element of a /search response has the keys caption and
\* characters beside episode, frame, path, timestamp, score, image_url and
\* thumb_url.
C24_ResultsCarryCaptionAndCharacters ==
    (last.op = "search" /\ last.status = 200) =>
        \A i \in DOMAIN last.response :
           {"episode", "frame", "path", "timestamp", "score", "image_url",
            "thumb_url", "caption", "characters"} \subseteq DOMAIN last.response[i]

\* the scored candidates whose caption holds the whole query
PhraseMatch(c) == Contains(Lower(last.request.q), Lower(c.row.caption))
\* the place of a scored candidate in the response, 0 when it is left out
PlaceOf(c) ==
    IF \E i \in DOMAIN last.response : last.response[i].path = c.row.path
    THEN CHOOSE i \in DOMAIN last.response : last.response[i].path = c.row.path
    ELSE 0

\* C29: in quote mode every score is between 0 and 0.95, and a candidate
\* whose caption contains the whole query scores higher than, and is never
\* listed after or dropped in favour of, one whose caption does not, whatever
\* their distances.
C29_QuoteScoresBounded ==
    SearchAnswered("quote") =>
        /\ \A j \in DOMAIN last.scored :
              0 <= last.scored[j]._score /\ last.scored[j]._score <= 1900000
        /\ \A i \in DOMAIN last.response :
              0 <= last.response[i].score /\ last.response[i].score <= 1900000
        /\ \A a, b \in DOMAIN last.scored :
              (PhraseMatch(last.scored[a]) /\ ~PhraseMatch(last.scored[b])) =>
                 /\ last.scored[a]._score > last.scored[b]._score
                 /\ PlaceOf(last.scored[b]) # 0 =>
                       /\ PlaceOf(last.scored[a]) # 0
                       /\ PlaceOf(last.scored[a]) < PlaceOf(last.scored[b])

\* a quote search listed a candidate whose caption holds the query before
\* one that was nearer to the query, matched a word of it and did not hold it
C29_Witness ==
    /\ SearchAnswered("quote")
    /\ \E a, b \in DOMAIN last.scored :
          /\ PhraseMatch(last.scored[a])
          /\ ~PhraseMatch(last.scored[b])
          /\ CaptionHits(last.scored[b].row) > 0
          /\ last.scored[b]._distance < last.scored[a]._distance
          /\ PlaceOf(last.scored[a]) = 1
          /\ PlaceOf(last.scored[b]) = 2

-----------------------------------------------------------------------------
(* search.py GET /similar *)

\* the L2 distance the index reports between two embeddings, in hundredths
\* (vector components are tenths)
SqDist(a, b) == (a[1] - b[1]) * (a[1] - b[1]) + (a[2] - b[2]) * (a[2] - b[2])

\* table.search().where(filter, prefilter=True).limit(1).to_list()
FirstWhere(rows, filter) ==
    Nearest(SelectSeq(rows, LAMBDA r : Satisfies(r, filter)), 1)

\* [r for r in results if r["path"] != path][:limit], as the response
SimilarResponse(results, path, limit) ==
    Response("visual",
             Top(SelectSeq(results, LAMBDA r : PathString(r.row.path) # path),
                 limit))

\* the handler: 500 when the filter does not parse, 404 when no row passes
\* it, else the neighbours of the first row that passes it
similar_frames(path, limit) ==
    /\ has_table
    /\ \E filter \in {PathFilter(path)} :
       \E source_results \in {FirstWhere(table, filter)} :
         IF ~filter.ok
         THEN last' = [op |-> "similar_frames", path |-> path, limit |-> limit,
                       status |-> 500]
         ELSE IF source_results = <<>>
         THEN last' = [op |-> "similar_frames", path |-> path, limit |-> limit,
                       status |-> 404]
         ELSE last' = [op |-> "similar_frames", path |-> path, limit |-> limit,
                       status |-> 200,
                       response |-> SimilarResponse(
                           KNN(table,
                               [i \in DOMAIN table |->
                                   SqDist(table[i].vector,
                                          source_results[1].vector)],
                               limit + 1),
                           path, limit)]
    /\ UNCHANGED <<table, has_table, disk, intro_cache>>
    /\ Unchanged_Stats

\* GET /random. random_offset is the value of random.randint(0, max(0, count
\* - 1)); the dummy search with offset returns the row at that place (the
\* model takes the places in storage order). The HTTPException raised for an
\* empty index is raised inside the try block, whose `except Exception`
\* turns it into a 500
random_frame(random_offset) ==
    /\ has_table
    /\ random_offset \in 0..Max(0, Len(table) - 1)
    /\ \E count \in {Len(table)} :
       \E results \in {IF random_offset < count
                        THEN <<table[random_offset + 1]>> ELSE <<>>} :
         IF count = 0 \/ results = <<>>
         THEN last' = [op |-> "random_frame", status |-> 500,
                       detail |-> IF count = 0 THEN "404: No frames in database"
                                  ELSE "404: No frame found"]
         ELSE last' = [op |-> "random_frame", status |-> 200,
                       response |->
                          [episode |-> results[1].episode,
                           frame |-> results[1].frame,
                           path |-> results[1].path,
                           timestamp |-> results[1].timestamp,
                           thumb_url |-> ImageUrls(results[1].episode,
                                                   results[1].frame).thumb_url,
                           image_url |-> ImageUrls(results[1].episode,
                                                   results[1].frame).image_url]]
    /\ UNCHANGED <<table, has_table, disk, intro_cache>>
    /\ Unchanged_Stats

-----------------------------------------------------------------------------
(* SpecFrames: /frame/delete, /similar and /random requests *)

\* an episode directory with an apostrophe in its name
EpQ == <<"s", "0", "3", "'", "e", "0", "1">>

FramesTable ==
    <<FrameRecord(EpA, 31), FrameRecord(EpA, 32),
      FrameRecord(EpQ, 31), FrameRecord(EpQ, 32)>>

\* the text of the path of frame 31 of EpQ with its quote doubled
EscapedPath == <<"s", "0", "3", "'", "'", "e", "0", "1", "/", "3", "1">>

\* x' OR path != 'x
InjectionPath == <<"x", "'", " ", "O", "R", " ", "p", "a", "t", "h", " ", "!",
                   "=", " ", "'", "x">>

\* the path parameters of the requests: every path of FramesTable, the path
\* of a frame that was never indexed, and the two texts above
RequestPaths ==
    {PathString(FramesTable[i].path) : i \in DOMAIN FramesTable}
        \cup {PathString(PathOf(EpA, 7)), EscapedPath, InjectionPath}

FramesInit ==
    /\ table = FramesTable
    /\ has_table = TRUE
    /\ disk = {EpA, EpQ}
    /\ intro_cache = <<>>
    /\ last = NoOp
    /\ stats_cache = NoStats
    /\ clock = 0
    /\ readers = IdleReaders
    /\ computes = <<>>
    /\ jobs = NoJobs

FramesNext ==
    \/ \E path \in RequestPaths : delete_frame(path)
    \/ \E path \in RequestPaths, limit \in 1..MaxLimit : similar_frames(path, limit)
    \/ \E random_offset \in 0..Len(FramesTable) : random_frame(random_offset)

SpecFrames == FramesInit /\ [][FramesNext]_vars

\* the records of the index whose path is, character for character, the text p
Holding(rows, p) == {i \in DOMAIN rows : PathString(rows[i].path) = p}

\* C12: a delete request for a path that is not in the index reports success
\* and leaves the index unchanged, and a delete request that repeats the
\* previous one leaves the index as the first one left it.
C12_DeleteIdempotent ==
    [][last'.op = "delete_frame" =>
          /\ Holding(table, last'.path) = {} =>
                (last'.status = 200 /\ last'.success /\ table' = table)
          /\ (last.op = "delete_frame" /\ last.path = last'.path) =>
                table' = table]_vars

\* C13: a delete request for the path text p removes exactly the records
\* whose path equals p character for character, whatever characters p holds,
\* and leaves every other record as it was.
C13_DeleteExactPath ==
    [][last'.op = "delete_frame" =>
          table' = SelectSeq(table, LAMBDA r : PathString(r.path) # last'.path)]_vars

\* C14: /similar for a path of the index answers 200 with at most `limit`
\* results, none of them the source path; for a path that is not in the
\* index it answers 404.
C14_SimilarExcludesSource ==
    last.op = "similar_frames" =>
        IF Holding(table, last.path) # {}
        THEN /\ last.status = 200
             /\ Len(last.response) <= last.limit
             /\ \A i \in DOMAIN last.response :
                   PathString(last.response[i].path) # last.path
        ELSE last.status = 404

\* C30: GET /random answers 404 when the index holds no record, never 500,
\* and on an index with records it answers with a record of the index.
C30_RandomFrameOutcome ==
    last.op = "random_frame" =>
        IF Len(table) = 0
        THEN last.status = 404
        ELSE /\ last.status = 200
             /\ \E i \in DOMAIN table :
                   /\ last.response.path = table[i].path
                   /\ last.response.episode = table[i].episode
                   /\ last.response.frame = table[i].frame
                   /\ last.response.timestamp = table[i].timestamp

-----------------------------------------------------------------------------
(* search.py GET /stats *)

STATS_CACHE_TTL == 600

\* int() of a string of digits
RECURSIVE ParseInt(_)
ParseInt(s) ==
    IF s = <<>> THEN 0
    ELSE ParseInt(SubSeq(s, 1, Len(s) - 1)) * 10
         + (CHOOSE d \in DOMAIN Digits : Digits[d] = s[Len(s)]) - 1

\* re.search(r's(\d+)e', ep, re.I): the <<start, number of digits>> of every
\* place where the pattern matches
SeasonMatches(ep) ==
    {m \in (1..Len(ep)) \X (1..Len(ep)) :
        /\ m[1] + m[2] + 1 <= Len(ep)
        /\ LowerChar(ep[m[1]]) = "s"
        /\ \A k \in 1..m[2] : IsDigit(ep[m[1] + k])
        /\ LowerChar(ep[m[1] + m[2] + 1]) = "e"}

\* int(match.group(1)) of the leftmost match
SeasonNumber(ep) ==
    LET m == CHOOSE x \in SeasonMatches(ep) :
                 \A y \in SeasonMatches(ep) : x[1] <= y[1]
    IN ParseInt(SubSeq(ep, m[1] + 1, m[1] + m[2]))

\* sorted(seasons)
RECURSIVE Sorted(_)
Sorted(set) ==
    IF set = {} THEN <<>>
    ELSE LET least == CHOOSE n \in set : \A k \in set : n <= k
         IN <<least>> \o Sorted(set \ {least})

\* the snapshot of the index; the average is kept as the pair
\* <<numerator, denominator>> of the quotient
StatsOf(count, episodes) ==
    [total_frames |-> count,
     episodes |-> Cardinality(episodes),
     frames_per_episode_avg |->
         IF Cardinality(episodes) > 0 THEN <<count, Cardinality(episodes)>>
         ELSE <<0, 1>>,
     seasons |-> Sorted({SeasonNumber(ep) :
                            ep \in {e \in episodes : SeasonMatches(e) # {}}})]

_compute_stats(rows) ==
    StatsOf(Len(rows), {rows[i].episode : i \in DOMAIN rows})

Unchanged_Index == UNCHANGED <<table, has_table, disk, intro_cache, jobs>>

MaxClock == 900
MaxComputes == 2

\* a request arrives and takes its time stamp: now = time.time()
stats_enter(r, refresh) ==
    /\ readers[r].pc = "idle"
    /\ readers' = [readers EXCEPT ![r] =
                      [pc |-> "check", now |-> clock, refresh |-> refresh]]
    /\ UNCHANGED <<last, stats_cache, clock, computes>>
    /\ Unchanged_Index

\* the test of the cached snapshot: not refresh, data present, and younger
\* than the TTL
stats_check(r) ==
    /\ readers[r].pc = "check"
    /\ readers' = [readers EXCEPT ![r] =
          [pc |-> IF /\ ~readers[r].refresh
                     /\ stats_cache.data # <<>>
                     /\ readers[r].now - stats_cache.timestamp < STATS_CACHE_TTL
                  THEN "cached" ELSE "compute",
           now |-> readers[r].now, refresh |-> readers[r].refresh,
           seen |-> stats_cache.timestamp]]
    /\ UNCHANGED <<last, stats_cache, clock, computes>>
    /\ Unchanged_Index

\* return _stats_cache["data"]
stats_return_cached(r) ==
    /\ readers[r].pc = "cached"
    /\ last' = [op |-> "stats", reader |-> r, now |-> readers[r].now,
                refresh |-> readers[r].refresh, seen |-> readers[r].seen,
                computed |-> FALSE, result |-> stats_cache.data[1]]
    /\ readers' = [readers EXCEPT ![r] = [pc |-> "idle"]]
    /\ UNCHANGED <<stats_cache, clock, computes>>
    /\ Unchanged_Index

\* result = _compute_stats(); computes is the log of these executions
stats_compute(r) ==
    /\ readers[r].pc = "compute"
    /\ Len(computes) < MaxComputes
    /\ readers' = [readers EXCEPT ![r] =
          [pc |-> "store_data", now |-> readers[r].now,
           refresh |-> readers[r].refresh, seen |-> readers[r].seen,
           result |-> _compute_stats(table)]]
    /\ computes' = Append(computes,
          [reader |-> r, now |-> readers[r].now,
           refresh |-> readers[r].refresh, seen |-> readers[r].seen])
    /\ UNCHANGED <<last, stats_cache, clock>>
    /\ Unchanged_Index

\* _stats_cache["data"] = result
stats_store_data(r) ==
    /\ readers[r].pc = "store_data"
    /\ stats_cache' = [stats_cache EXCEPT !.data = <<readers[r].result>>]
    /\ readers' = [readers EXCEPT ![r].pc = "store_timestamp"]
    /\ UNCHANGED <<last, clock, computes>>
    /\ Unchanged_Index

\* _stats_cache["timestamp"] = now; return result
stats_store_timestamp(r) ==
    /\ readers[r].pc = "store_timestamp"
    /\ stats_cache' = [stats_cache EXCEPT !.timestamp = readers[r].now]
    /\ last' = [op |-> "stats", reader |-> r, now |-> readers[r].now,
                refresh |-> readers[r].refresh, seen |-> readers[r].seen,
                computed |-> TRUE, result |-> readers[r].result]
    /\ readers' = [readers EXCEPT ![r] = [pc |-> "idle"]]
    /\ UNCHANGED <<clock, computes>>
    /\ Unchanged_Index

\* time.time() moves on
Tick(dt) ==
    /\ clock + dt <= MaxClock
    /\ clock' = clock + dt
    /\ UNCHANGED <<last, stats_cache, readers, computes>>
    /\ Unchanged_Index

-----------------------------------------------------------------------------
(* SpecStats: concurrent /stats requests while frames are deleted *)

\* seconds by which the clock moves between two steps
Ticks == {300, 600}

\* the index at the module's start, and the frame a moderator deletes: the
\* only frame of season 2
StatsTable == <<FrameRecord(EpA, 31), FrameRecord(EpA, 32), FrameRecord(EpB, 31)>>
Deletable == {PathString(PathOf(EpB, 31))}

\* the module's start: the index is open and the snapshot is precomputed
StatsInit ==
    /\ table = StatsTable
    /\ has_table = TRUE
    /\ disk = {EpA, EpB}
    /\ intro_cache = <<>>
    /\ last = NoOp
    /\ stats_cache = [data |-> <<_compute_stats(StatsTable)>>, timestamp |-> 0]
    /\ clock = 0
    /\ readers = IdleReaders
    /\ computes = <<>>
    /\ jobs = NoJobs

StatsNext ==
    \/ \E r \in Readers, refresh \in BOOLEAN : stats_enter(r, refresh)
    \/ \E r \in Readers : stats_check(r)
    \/ \E r \in Readers : stats_return_cached(r)
    \/ \E r \in Readers : stats_compute(r)
    \/ \E r \in Readers : stats_store_data(r)
    \/ \E r \in Readers : stats_store_timestamp(r)
    \/ \E dt \in Ticks : Tick(dt)
    \/ \E path \in Deletable : delete_frame(path)

SpecStats == StatsInit /\ [][StatsNext]_vars

\* C10: when the snapshot has expired and several readers arrive, the
\* recomputation runs once for that expiry: no two requests without refresh
\* execute _compute_stats after finding the same snapshot (the one stamped
\* `seen`) expired.
C10_OneComputePerExpiry ==
    \A i, j \in DOMAIN computes :
        (i < j /\ ~computes[i].refresh /\ ~computes[j].refresh)
            => computes[i].seen # computes[j].seen

\* C11: the snapshot and its time stamp are replaced together, so no reader
\* is served the data of one refresh after testing the time stamp of another:
\* never is a reader about to return the cached data (its test passed on the
\* stamp `seen`) while the cache already holds the data of a refresh whose
\* own stamp, different from `seen`, is not stored yet.
C11_SnapshotAndStampTogether ==
    \A r1, r2 \in Readers :
        ~ /\ r1 # r2
          /\ readers[r1].pc = "store_timestamp"
          /\ stats_cache.data = <<readers[r1].result>>
          /\ readers[r2].pc = "cached"
          /\ readers[r2].seen = stats_cache.timestamp
          /\ readers[r2].seen # readers[r1].now

-----------------------------------------------------------------------------
(* remove_black_frames.py *)

\* an image file: its grayscale pixels (0..255), or the message of the
\* exception that opening and converting it raises (<<>> when it decodes)
Decoded(pixels) == [pixels |-> pixels, error |-> <<>>]
Undecodable == [pixels |-> <<>>,
                error |-> <<"c","a","n","n","o","t"," ","i","d","e","n","t","i","f","y">>]

RECURSIVE Sum(_)
Sum(seq) == IF seq = <<>> THEN 0 ELSE Head(seq) + Sum(Tail(seq))

\* the analysis of a frame. mean is sum / size; std is kept by its square,
\* var_num / size^2 with var_num = size * sum(x^2) - sum(x)^2; black_pct and
\* white_pct are black_pixels / size and white_pixels / size. "error" is <<>>
\* for None.
analyze_frame(image) ==
    IF image.error # <<>> THEN [error |-> image.error]
    ELSE [sum |-> Sum(image.pixels),
          var_num |-> Len(image.pixels)
                         * Sum([i \in DOMAIN image.pixels |->
                                   image.pixels[i] * image.pixels[i]])
                      - Sum(image.pixels) * Sum(image.pixels),
          size |-> Len(image.pixels),
          black_pixels |-> Len(SelectSeq(image.pixels, LAMBDA x : x < 30)),
          white_pixels |-> Len(SelectSeq(image.pixels, LAMBDA x : x > 225)),
          error |-> <<>>]

\* analysis["std"] < min_std
StdBelow(analysis, min_std) ==
    analysis.var_num < min_std * min_std * analysis.size * analysis.size

is_blank_frame_ErrorBlank(image, black_threshold, white_threshold, percentage, min_std) ==
    LET analysis == analyze_frame(image)
    IN IF analysis.error # <<>>
       THEN [is_blank |-> TRUE, reason |-> "error"]
       ELSE IF analysis.black_pixels * 100 >= percentage * analysis.size
       THEN [is_blank |-> TRUE, reason |-> "black"]
       ELSE IF analysis.white_pixels * 100 >= percentage * analysis.size
       THEN [is_blank |-> TRUE, reason |-> "white"]
       ELSE IF StdBelow(analysis, min_std) /\ analysis.sum < 50 * analysis.size
       THEN [is_blank |-> TRUE, reason |-> "low_contrast_dark"]
       ELSE IF StdBelow(analysis, min_std) /\ analysis.sum > 200 * analysis.size
       THEN [is_blank |-> TRUE, reason |-> "low_contrast_bright"]
       ELSE [is_blank |-> FALSE, reason |-> "ok"]

\* (is_blank, reason) of is_blank_frame; percentage is in hundredths
is_blank_frame(image, black_threshold, white_threshold, percentage, min_std) ==
    LET analysis == analyze_frame(image)
    IN IF analysis.error # <<>>
       THEN [is_blank |-> FALSE, reason |-> "error"]
       ELSE IF analysis.black_pixels * 100 >= percentage * analysis.size
       THEN [is_blank |-> TRUE, reason |-> "black"]
       ELSE IF analysis.white_pixels * 100 >= percentage * analysis.size
       THEN [is_blank |-> TRUE, reason |-> "white"]
       ELSE IF StdBelow(analysis, min_std) /\ analysis.sum < 50 * analysis.size
       THEN [is_blank |-> TRUE, reason |-> "low_contrast_dark"]
       ELSE IF StdBelow(analysis, min_std) /\ analysis.sum > 200 * analysis.size
       THEN [is_blank |-> TRUE, reason |-> "low_contrast_bright"]
       ELSE [is_blank |-> FALSE, reason |-> "ok"]

\* the characters of episode names, in code point order
CodeOrder == <<" ", "'", ",", ".", "/", "0", "1", "2", "3", "4", "5", "6", "7",
               "8", "9", "B", "E", "H", "M", "O", "R", "S", "a", "b", "c", "d",
               "e", "f", "g", "h", "i", "j", "k", "l", "m", "n", "o", "p", "q",
               "r", "s", "t", "u", "v", "w", "x", "y", "z">>
Ord(c) == CHOOSE k \in DOMAIN CodeOrder : CodeOrder[k] = c

\* a < b for two strings
RECURSIVE StrLess(_, _)
StrLess(a, b) ==
    IF b = <<>> THEN FALSE
    ELSE IF a = <<>> THEN TRUE
    ELSE IF Head(a) # Head(b) THEN Ord(Head(a)) < Ord(Head(b))
    ELSE StrLess(Tail(a), Tail(b))

\* blank_frames.sort(key=lambda x: (x["episode"], x["timestamp"])); time
\* stamps are below 100000
SortByEpisodeAndTimestamp(frames) ==
    Items(SortByKey([i \in DOMAIN frames |->
        [key |-> Cardinality({j \in DOMAIN frames :
                               StrLess(frames[j].episode, frames[i].episode)})
                 * 100000 + frames[i].timestamp,
         item |-> frames[i]]]))

\* the loop of detect_blank_frames over all_frames: files maps the number of
\* a row to its image file, or to <<>> when Path(path).exists() is false
RECURSIVE BlankLoop(_, _, _, _)
BlankLoop(all_frames, files, i, p) ==
    IF i > Len(all_frames) THEN <<>>
    ELSE IF files[i] = <<>> THEN BlankLoop(all_frames, files, i + 1, p)
    ELSE (IF is_blank_frame(files[i][1], p.black_threshold, p.white_threshold,
                            p.percentage, p.min_std).is_blank
          THEN <<[path |-> all_frames[i].path,
                  episode |-> all_frames[i].episode,
                  timestamp |-> all_frames[i].timestamp,
                  reason |-> is_blank_frame(files[i][1], p.black_threshold,
                                 p.white_threshold, p.percentage,
                                 p.min_std).reason]>>
          ELSE <<>>)
         \o BlankLoop(all_frames, files, i + 1, p)

\* a pending call of is_blank_frame on one image
is_blank_frame_call ==
    /\ last.op = "call is_blank_frame"
    /\ last' = [op |-> "is_blank_frame", call |-> last,
                returned |-> is_blank_frame(last.image, last.black_threshold,
                                last.white_threshold, last.percentage,
                                last.min_std)]
    /\ UNCHANGED <<table, has_table, disk, intro_cache>>
    /\ Unchanged_Stats

\* a pending run of detect_blank_frames over the index
detect_blank_frames ==
    /\ last.op = "call detect_blank_frames"
    /\ \E blank_frames \in {SortByEpisodeAndTimestamp(
                               BlankLoop(ScanAll(table), last.files, 1, last))} :
         /\ table' = IF last.dry_run THEN table
                     ELSE DeletePaths(table, [i \in DOMAIN blank_frames |->
                                                 blank_frames[i].path])
         /\ last' = [op |-> "detect_blank_frames", call |-> last,
                     all_frames |-> ScanAll(table), returned |-> blank_frames]
    /\ UNCHANGED <<has_table, disk, intro_cache>>
    /\ Unchanged_Stats

-----------------------------------------------------------------------------
(* SpecBlank: is_blank_frame on one image, detect_blank_frames on an index *)

\* the images of the pure-function runs: ImageSize pixels, values in
\* non-decreasing order
ImageSize == 4
PixelValues == {0, 29, 40, 128, 210, 255}
Images ==
    {Decoded(px) : px \in {q \in [1..ImageSize -> PixelValues] :
                              \A i \in 1..(ImageSize - 1) : q[i] <= q[i + 1]}}
        \cup {Undecodable}

\* black_threshold, white_threshold, percentage (hundredths), min_std
BlackThresholds == {30, 50}
WhiteThresholds == {225, 200}
Percentages == {95, 75}
MinStds == {10, 30}

\* the image files of the index runs: black, white, dim, ordinary, one that
\* does not decode, and <<>> for a file that is not there
FileChoices ==
    {<<Decoded(<<0, 0, 0, 0>>)>>, <<Decoded(<<255, 255, 255, 255>>)>>,
     <<Decoded(<<40, 40, 40, 40>>)>>, <<Decoded(<<0, 40, 128, 255>>)>>,
     <<Undecodable>>, <<>>}

BlankTable == <<FrameRecord(EpB, 31), FrameRecord(EpA, 32), FrameRecord(EpA, 31)>>

BlankInit ==
    /\ table = BlankTable
    /\ has_table = TRUE
    /\ disk = {EpA, EpB}
    /\ intro_cache = <<>>
    /\ \/ \E image \in Images, black_threshold \in BlackThresholds,
            white_threshold \in WhiteThresholds, percentage \in Percentages,
            min_std \in MinStds :
           last = [op |-> "call is_blank_frame", image |-> image,
                   black_threshold |-> black_threshold,
                   white_threshold |-> white_threshold,
                   percentage |-> percentage, min_std |-> min_std]
       \/ \E files \in [DOMAIN BlankTable -> FileChoices], dry_run \in BOOLEAN,
            black_threshold \in BlackThresholds :
           last = [op |-> "call detect_blank_frames", files |-> files,
                   black_threshold |-> black_threshold,
                   white_threshold |-> 225, percentage |-> 95,
                   min_std |-> 10, dry_run |-> dry_run]
    /\ stats_cache = NoStats
    /\ clock = 0
    /\ readers = IdleReaders
    /\ computes = <<>>
    /\ jobs = NoJobs

BlankNext == is_blank_frame_call \/ detect_blank_frames

SpecBlank == BlankInit /\ [][BlankNext]_vars

\* the reason the rule gives for decoded pixels: the first of black (share
\* of pixels below black_threshold at least percentage), white (share of
\* pixels above white_threshold at least percentage), low_contrast_dark
\* (std < min_std and mean < 50), low_contrast_bright (std < min_std and
\* mean > 200), else ok
RuleReason(pixels, black_threshold, white_threshold, percentage, min_std) ==
    LET n == Len(pixels)
        below == Cardinality({i \in 1..n : pixels[i] < black_threshold})
        above == Cardinality({i \in 1..n : pixels[i] > white_threshold})
        total == Sum(pixels)
        flat == n * Sum([i \in 1..n |-> pixels[i] * pixels[i]]) - total * total
                    < min_std * min_std * n * n
    IN IF below * 100 >= percentage * n THEN "black"
       ELSE IF above * 100 >= percentage * n THEN "white"
       ELSE IF flat /\ total < 50 * n THEN "low_contrast_dark"
       ELSE IF flat /\ total > 200 * n THEN "low_contrast_bright"
       ELSE "ok"

\* C15: for every black_threshold, white_threshold, percentage and min_std,
\* is_blank_frame gives a decoded frame the reason of the first matching rule
\* (black, white, low_contrast_dark, low_contrast_bright, ok), and reports it
\* blank exactly when the reason is not ok.
C15_FirstMatchingRule ==
    (last.op = "is_blank_frame" /\ last.call.image.error = <<>>) =>
        /\ last.returned.reason =
             RuleReason(last.call.image.pixels, last.call.black_threshold,
                        last.call.white_threshold, last.call.percentage,
                        last.call.min_std)
        /\ last.returned.is_blank <=> (last.returned.reason # "ok")

\* the rows of a finished detect_blank_frames run whose image file is there
\* but does not decode
UndecodableRows ==
    {i \in DOMAIN last.all_frames :
        /\ last.call.files[i] # <<>>
        /\ last.call.files[i][1].error # <<>>}

\* C16: for an image that cannot be decoded is_blank_frame returns is_blank
\* false with the reason "error", and detect_blank_frames, in dry-run and in
\* delete mode, neither lists such a frame nor deletes its record.
C16_UndecodableNeverBlank ==
    /\ (last.op = "is_blank_frame" /\ last.call.image.error # <<>>) =>
          (~last.returned.is_blank /\ last.returned.reason = "error")
    /\ last.op = "detect_blank_frames" =>
          \A i \in UndecodableRows :
             /\ \A k \in DOMAIN last.returned :
                   /\ last.returned[k].path # last.all_frames[i].path
                   /\ last.returned[k].reason # "error"
             /\ \E j \in DOMAIN table : table[j] = last.all_frames[i]

\* a run in delete mode that removed a blank frame and met a file that does
\* not decode
C16_Witness ==
    /\ last.op = "detect_blank_frames"
    /\ ~last.call.dry_run
    /\ UndecodableRows # {}
    /\ Len(last.returned) > 0
    /\ Len(table) < Len(last.all_frames)

-----------------------------------------------------------------------------
(* SpecBoundaries: get_episode_timestamps on a file name and a cache *)

\* a pending call of get_episode_timestamps
get_episode_timestamps_call ==
    /\ last.op = "call get_episode_timestamps"
    /\ last' = [op |-> "get_episode_timestamps", call |-> last,
                returned |-> get_episode_timestamps(last.filename, last.cache)]
    /\ UNCHANGED <<table, has_table, disk, intro_cache>>
    /\ Unchanged_Stats

\* episode 10 of season 1, whose name begins with the name of episode 1
EpTen == <<"s", "0", "1", "e", "0", "1", "0">>

Mp4Name(episode) == episode \o <<".", "m", "p", "4">>

\* the keys of the caches and the file names asked for
CacheNames == {MkvName(EpA), Mp4Name(EpA), MkvName(EpTen), MkvName(EpB)}
FileNames == {MkvName(EpA), EpA, MkvName(EpC)}

\* cache values, in tenths of a second: both boundaries, a credits start
\* counted from the end, and an entry without credits_start
CacheData ==
    {[intro_end |-> 955, credits_start |-> 13000],
     [intro_end |-> 600, credits_start |-> -305],
     [intro_end |-> 800]}

\* the caches: at most MaxCacheLen entries under different keys
MaxCacheLen == 2
BoundaryCaches ==
    {c \in UNION {[1..n -> [name : CacheNames, data : CacheData]] :
                     n \in 0..MaxCacheLen} :
        \A i, j \in DOMAIN c : i # j => c[i].name # c[j].name}

BoundariesInit ==
    /\ table = <<>>
    /\ has_table = FALSE
    /\ disk = {}
    /\ intro_cache = <<>>
    /\ \E filename \in FileNames, cache \in BoundaryCaches :
          last = [op |-> "call get_episode_timestamps", filename |-> filename,
                  cache |-> cache]
    /\ stats_cache = NoStats
    /\ clock = 0
    /\ readers = IdleReaders
    /\ computes = <<>>
    /\ jobs = NoJobs

BoundariesNext == get_episode_timestamps_call

SpecBoundaries == BoundariesInit /\ [][BoundariesNext]_vars

\* a file name with its extensions stripped
Stem(name) == SplitOn(name, ".", <<>>)[1]

\* the boundaries an entry stands for: truncated to whole seconds, a missing
\* field replaced by its default (90, and 40 s before the end written -40)
EntryBoundaries(data) ==
    <<IF "intro_end" \in DOMAIN data THEN IntTrunc(data.intro_end) ELSE 90,
      IF "credits_start" \in DOMAIN data THEN IntTrunc(data.credits_start)
      ELSE -40>>

\* C17: get_episode_timestamps returns the entry under the exact file name;
\* else the entry of a key with the same stem as the file name; else the
\* defaults (90, -40). It never returns the entry of a key whose stem
\* differs from the file name's.
C17_ExactThenStemThenDefault ==
    last.op = "get_episode_timestamps" =>
        LET filename == last.call.filename
            cache == last.call.cache
            exact == {i \in DOMAIN cache : cache[i].name = filename}
            stem == {i \in DOMAIN cache : Stem(cache[i].name) = Stem(filename)}
        IN IF exact # {}
           THEN \E i \in exact : last.returned = EntryBoundaries(cache[i].data)
           ELSE IF stem # {}
           THEN \E i \in stem : last.returned = EntryBoundaries(cache[i].data)
           ELSE last.returned = <<90, -40>>

-----------------------------------------------------------------------------
(* index_new_episodes.py, one run step by step *)

AddRecordsOverwrite(rows, records) == records

\* table.add(records)
AddRecords(rows, records) == rows \o records

\* the command is given again after a run of it was stopped
Resumes(season_filter) ==
    /\ last.op = "interrupted index_new_episodes"
    /\ last.season_filter = season_filter

\* the start of a run: the paths and episodes of the index are read and the
\* new episodes selected; the run ends at once when there is none. `prior`
\* keeps what the stopped runs this one takes up had appended
run_begin(season_filter) ==
    /\ last.op # "running index_new_episodes"
    /\ \E existing_paths \in {ExistingPaths(has_table, table)},
          existing_episodes \in {ExistingEpisodes(has_table, table)},
          episode_dirs \in {SeasonDirs(EpisodeDirs(disk), season_filter)},
          resumed \in {Resumes(season_filter)} :
       \E new_episodes \in {NewEpisodes(episode_dirs, existing_episodes)},
          prior \in {IF resumed THEN last.added ELSE <<>>} :
          last' = IF new_episodes = <<>>
                  THEN [op |-> "index_new_episodes", error |-> "",
                        season_filter |-> season_filter, added |-> <<>>,
                        resumed |-> resumed, prior |-> prior]
                  ELSE [op |-> "running index_new_episodes", pc |-> "episode",
                        season_filter |-> season_filter,
                        existing_paths |-> existing_paths,
                        new_episodes |-> new_episodes, episode |-> <<>>,
                        frame_paths |-> <<>>, records |-> <<>>,
                        added |-> <<>>,
                        resumed |-> resumed, prior |-> prior]
    /\ UNCHANGED <<table, has_table, disk, intro_cache>>
    /\ Unchanged_Stats

\* for episode_dir in new_episodes: the frames of the next episode are
\* listed; after the last episode the run reports table.count_rows(), and
\* `table` is unbound there when the database had no table
run_episode ==
    /\ last.op = "running index_new_episodes"
    /\ last.pc = "episode"
    /\ last' = IF last.new_episodes = <<>>
               THEN [op |-> "index_new_episodes",
                     error |-> IF has_table THEN "" ELSE "no table",
                     season_filter |-> last.season_filter,
                     added |-> last.added,
                     resumed |-> last.resumed, prior |-> last.prior]
               ELSE [last EXCEPT !.pc = "frame",
                                 !.episode = Head(last.new_episodes),
                                 !.new_episodes = Tail(last.new_episodes),
                                 !.frame_paths =
                                     Sorted(FramesOnDisk(Head(last.new_episodes))),
                                 !.records = <<>>]
    /\ UNCHANGED <<table, has_table, disk, intro_cache>>
    /\ Unchanged_Stats

\* for frame_path in frame_paths: one frame is skipped, or embedded,
\* captioned and put on the list `records`
run_frame ==
    /\ last.op = "running index_new_episodes"
    /\ last.pc = "frame"
    /\ last.frame_paths # <<>>
    /\ \E f \in {Head(last.frame_paths)} :
         last' = [last EXCEPT
            !.frame_paths = Tail(last.frame_paths),
            !.records =
               IF \/ PathOf(last.episode, f) \in last.existing_paths
                  \/ f * FRAME_INTERVAL <= 90
                  \/ f * FRAME_INTERVAL >= EpisodeLength(last.episode) - 40
               THEN last.records
               ELSE Append(last.records, FrameRecord(last.episode, f))]
    /\ UNCHANGED <<table, has_table, disk, intro_cache>>
    /\ Unchanged_Stats

\* embed_image, generate_caption or detect_characters_clip raises on a frame
\* that passed the skips (an unreadable image, a failing model): nothing
\* catches the exception, so it ends the run
run_frame_raises ==
    /\ last.op = "running index_new_episodes"
    /\ last.pc = "frame"
    /\ last.frame_paths # <<>>
    /\ \E f \in {Head(last.frame_paths)} :
         /\ PathOf(last.episode, f) \notin last.existing_paths
         /\ f * FRAME_INTERVAL > 90
         /\ f * FRAME_INTERVAL < EpisodeLength(last.episode) - 40
         /\ last' = [op |-> "index_new_episodes", error |-> "frame failure",
                     season_filter |-> last.season_filter,
                     added |-> last.added, episode |-> last.episode,
                     frame |-> f, new_episodes |-> last.new_episodes]
    /\ UNCHANGED <<table, has_table, disk, intro_cache>>
    /\ Unchanged_Stats

\* if records: db.open_table("frames").add(records); without a table
\* open_table raises and the run ends
run_add ==
    /\ last.op = "running index_new_episodes"
    /\ last.pc = "frame"
    /\ last.frame_paths = <<>>
    /\ IF last.records = <<>>
       THEN /\ table' = table
            /\ last' = [last EXCEPT !.pc = "episode"]
       ELSE IF ~has_table
       THEN /\ table' = table
            /\ last' = [op |-> "index_new_episodes", error |-> "no table",
                        season_filter |-> last.season_filter, added |-> <<>>]
       ELSE /\ table' = AddRecords(table, last.records)
            /\ last' = [last EXCEPT !.pc = "episode", !.records = <<>>,
                                    !.added = last.added \o last.records]
    /\ UNCHANGED <<has_table, disk, intro_cache>>
    /\ Unchanged_Stats

\* the process is stopped: what it held in memory is gone
run_interrupt ==
    /\ last.op = "running index_new_episodes"
    /\ last' = [op |-> "interrupted index_new_episodes", pc |-> last.pc,
                season_filter |-> last.season_filter,
                added |-> last.prior \o last.added, lost |-> last.records]
    /\ UNCHANGED <<table, has_table, disk, intro_cache>>
    /\ Unchanged_Stats

-----------------------------------------------------------------------------
(* SpecRun: runs of index_new_episodes that may be stopped at any step *)

\* the index before the first run: none, an empty one, or one that holds two
\* frames of episode C (indexed by index_frames under a cache)
RunInit ==
    /\ \E rows \in {<<>>, <<FrameRecord(EpC, 10), FrameRecord(EpC, 11)>>} :
          /\ table = rows
          /\ has_table \in (IF rows = <<>> THEN BOOLEAN ELSE {TRUE})
    /\ disk \in (SUBSET Episodes) \ {{}}
    /\ intro_cache = <<>>
    /\ last = NoOp
    /\ stats_cache = NoStats
    /\ clock = 0
    /\ readers = IdleReaders
    /\ computes = <<>>
    /\ jobs = NoJobs

RunNext ==
    \/ \E season_filter \in SeasonArgs : run_begin(season_filter)
    \/ run_episode
    \/ run_frame
    \/ run_frame_raises
    \/ run_add
    \/ run_interrupt

SpecRun == RunInit /\ [][RunNext]_vars

\* a record with every field of a frame record, filled in for its frame
CompleteRecord(r) ==
    /\ DOMAIN r = {"episode", "frame", "path", "timestamp", "caption",
                   "characters", "vector"}
    /\ r.episode \in disk
    /\ r.frame \in FramesOnDisk(r.episode)
    /\ r = FrameRecord(r.episode, r.frame)

\* C20: every step of an index_new_episodes run, a stop of the run at any
\* step included, leaves each record that was in the index in its place with
\* all fields unchanged, and every record it adds is complete.
C20_RunOnlyAppends ==
    [][/\ Len(table') >= Len(table)
       /\ \A i \in DOMAIN table : table'[i] = table[i]
       /\ \A i \in DOMAIN table' : i > Len(table) => CompleteRecord(table'[i])]_vars

\* a run over an index that held records was stopped between the frames of
\* its second new episode: the records of the first are in the index after
\* the old ones, those collected for the second are lost
C20_Witness ==
    /\ last.op = "interrupted index_new_episodes"
    /\ last.pc = "frame"
    /\ last.added # <<>>
    /\ last.lost # <<>>
    /\ Len(table) > Len(last.added)
    /\ \A i \in DOMAIN last.added :
          table[Len(table) - Len(last.added) + i] = last.added[i]

\* C21: a failure on one frame does not abort the run: when a run has ended
\* in which a frame failed, every other admitted frame of that episode and
\* of the episodes that were still to come is in the index.
C21_FrameFailureDoesNotAbort ==
    (last.op = "index_new_episodes" /\ last.error = "frame failure" /\ has_table) =>
        \A e \in {last.episode} \cup Range(last.new_episodes) :
           \A f \in DefaultAdmissible(e) :
              (e # last.episode \/ f # last.frame) =>
                 \E i \in DOMAIN table : table[i].path = PathOf(e, f)

-----------------------------------------------------------------------------
(* Batch commands as processes: index_new_episodes and update_character_tags
   run beside each other and beside the web service; jobs[j] holds what
   process j has in memory *)

NumJobs == 2
Jobs == 1..NumJobs
Idle == [pc |-> "idle"]

\* index_new_episodes up to the selection of the new episodes: the paths and
\* episodes of the index are read once, here
job_begin(j, season_filter) ==
    /\ jobs[j].pc = "idle"
    /\ \E existing_paths \in {ExistingPaths(has_table, table)},
          existing_episodes \in {ExistingEpisodes(has_table, table)},
          episode_dirs \in {SeasonDirs(EpisodeDirs(disk), season_filter)} :
       \E new_episodes \in {NewEpisodes(episode_dirs, existing_episodes)} :
          jobs' = [jobs EXCEPT ![j] =
                     IF new_episodes = <<>>
                     THEN [pc |-> "done", cmd |-> "index_new_episodes",
                           error |-> ""]
                     ELSE [pc |-> "episode", cmd |-> "index_new_episodes",
                           existing_paths |-> existing_paths,
                           new_episodes |-> new_episodes]]
    /\ UNCHANGED <<table, has_table, disk, intro_cache, last>>
    /\ UNCHANGED <<stats_cache, clock, readers, computes>>

\* one episode of the loop: its records are collected from the frames on
\* disk and the paths read at the start, then appended with table.add; after
\* the last episode the run reports the row count
job_episode(j) ==
    /\ jobs[j].pc = "episode"
    /\ IF jobs[j].new_episodes = <<>>
       THEN /\ table' = table
            /\ jobs' = [jobs EXCEPT ![j] =
                          [pc |-> "done", cmd |-> "index_new_episodes",
                           error |-> IF has_table THEN "" ELSE "no table"]]
       ELSE \E records \in {IndexNewRecords(Head(jobs[j].new_episodes),
                                            jobs[j].existing_paths)} :
            IF records = <<>>
            THEN /\ table' = table
                 /\ jobs' = [jobs EXCEPT ![j].new_episodes = Tail(@)]
            ELSE IF ~has_table
            THEN /\ table' = table
                 /\ jobs' = [jobs EXCEPT ![j] =
                               [pc |-> "done", cmd |-> "index_new_episodes",
                                error |-> "no table"]]
            ELSE /\ table' = AddRecords(table, records)
                 /\ jobs' = [jobs EXCEPT ![j].new_episodes = Tail(@)]
    /\ UNCHANGED <<has_table, disk, intro_cache, last>>
    /\ UNCHANGED <<stats_cache, clock, readers, computes>>

\* the classifiers a re-tagging pass may be given: what detect_characters
\* returns for a frame, joined with ", "
YoloModels == {"none", "homer"}
detect_characters(model, path) ==
    IF model = "homer" /\ path[2] % 2 = 0 THEN CharsHomer ELSE <<>>

UpdatedRecordNoVector(row, model) ==
    [row EXCEPT !.characters = detect_characters(model, row.path),
                !.vector = VZero]

\* record = row.to_dict(); record['characters'] = ", ".join(new_chars)
UpdatedRecord(row, model) ==
    [row EXCEPT !.characters = detect_characters(model, row.path)]

\* update_character_tags up to df = table.to_pandas(); a dry run prints the
\* tags of the first ten rows and returns
retag_begin(j, model, dry_run) ==
    /\ jobs[j].pc = "idle"
    /\ jobs' = [jobs EXCEPT ![j] =
                  IF ~has_table
                  THEN [pc |-> "done", cmd |-> "update_character_tags",
                        error |-> "no table"]
                  ELSE IF dry_run
                  THEN [pc |-> "done", cmd |-> "update_character_tags",
                        error |-> "", dry_run |-> TRUE]
                  ELSE [pc |-> "retag", cmd |-> "update_character_tags",
                        model |-> model, df |-> table]]
    /\ UNCHANGED <<table, has_table, disk, intro_cache, last>>
    /\ UNCHANGED <<stats_cache, clock, readers, computes>>

\* the loop over df and db.create_table("frames", updated_records,
\* mode="overwrite"); with no record to write the library may refuse, and
\* the percentage printed last divides by zero
retag_write(j) ==
    /\ jobs[j].pc = "retag"
    /\ \E updated_records \in {[i \in DOMAIN jobs[j].df |->
                                  UpdatedRecord(jobs[j].df[i], jobs[j].model)]} :
       \E refused \in (IF updated_records = <<>> THEN BOOLEAN ELSE {FALSE}) :
         /\ table' = IF refused THEN table ELSE updated_records
         /\ jobs' = [jobs EXCEPT ![j] =
                       [pc |-> "done", cmd |-> "update_character_tags",
                        error |-> IF updated_records = <<>>
                                  THEN "no records" ELSE "",
                        dry_run |-> FALSE, df |-> jobs[j].df]]
    /\ UNCHANGED <<has_table, disk, intro_cache, last>>
    /\ UNCHANGED <<stats_cache, clock, readers, computes>>

-----------------------------------------------------------------------------
(* SpecJobs: two batch processes and DELETE /frame over one index *)

\* the index holds two frames of episode C; episode A is on disk and not
\* indexed yet
JobsInit ==
    /\ table = <<FrameRecord(EpC, 10), FrameRecord(EpC, 11)>>
    /\ has_table = TRUE
    /\ disk = {EpA, EpC}
    /\ intro_cache = <<>>
    /\ last = NoOp
    /\ stats_cache = NoStats
    /\ clock = 0
    /\ readers = IdleReaders
    /\ computes = <<>>
    /\ jobs = [j \in Jobs |-> Idle]

JobsNext ==
    \/ \E j \in Jobs, season_filter \in SeasonArgs : job_begin(j, season_filter)
    \/ \E j \in Jobs : job_episode(j)
    \/ \E j \in Jobs, model \in YoloModels, dry_run \in BOOLEAN :
          retag_begin(j, model, dry_run)
    \/ \E j \in Jobs : retag_write(j)
    \/ \E path \in {PathString(r.path) : r \in Range(table)} : delete_frame(path)

SpecJobs == JobsInit /\ [][JobsNext]_vars

\* C22: two index_new_episodes runs that overlap never both append the same
\* episode: no step of a run appends a record whose path the index already
\* holds, so no path is in the index twice.
C22_NoPathAppendedTwice ==
    \A i, k \in DOMAIN table : table[i].path = table[k].path => i = k

\* the fields of a record a re-tagging pass has no business with
SameButCharacters(r, q) ==
    /\ DOMAIN r = DOMAIN q
    /\ \A k \in DOMAIN q \ {"characters"} : r[k] = q[k]

\* a step in which process j ends a re-tagging pass, and one in which it
\* makes a dry run
RetagEnds(j) == jobs[j].pc = "retag" /\ jobs'[j].pc = "done"
RetagDryRun(j) ==
    /\ jobs[j].pc = "idle"
    /\ jobs'[j].pc = "done"
    /\ jobs'[j].cmd = "update_character_tags"

\* C25: a re-tagging pass leaves the index with the records it found when it
\* started, as many and in every field but `characters` the same (or it
\* writes nothing); a dry run changes nothing.
C25_RetagKeepsRecords ==
    [][\A j \in Jobs :
         /\ RetagEnds(j) =>
               \/ table' = table
               \/ /\ Len(table') = Len(jobs[j].df)
                  /\ \A i \in DOMAIN table' :
                        SameButCharacters(table'[i], jobs[j].df[i])
         /\ RetagDryRun(j) => table' = table]_vars

\* a pass has rewritten an index of two or more records and changed a tag
C25_Witness ==
    \E j \in Jobs :
       /\ jobs[j].pc = "done"
       /\ jobs[j].cmd = "update_character_tags"
       /\ jobs[j].error = ""
       /\ ~jobs[j].dry_run
       /\ Len(jobs[j].df) >= 2
       /\ Len(table) = Len(jobs[j].df)
       /\ \A i \in DOMAIN table : SameButCharacters(table[i], jobs[j].df[i])
       /\ \E i \in DOMAIN table : table[i].characters # jobs[j].df[i].characters

\* C27: a record removed by DELETE /frame stays out of the index: as long as
\* that delete is the last request the service answered, whatever the batch
\* processes did since, no record has the path it removed.
C27_DeletedStaysDeleted ==
    (last.op = "delete_frame" /\ last.status = 200) =>
        \A i \in DOMAIN table : PathString(table[i].path) # last.path

\* the index a run that is not stopped leaves, started on the rows `before`
Uninterrupted(before, season_filter) ==
    IndexNewLoop(NewEpisodes(SeasonDirs(EpisodeDirs(disk), season_filter),
                             ExistingEpisodes(TRUE, before)),
                 ExistingPaths(TRUE, before), before)

\* the index as it was when the first of the stopped runs began: the index
\* without the records those runs and the last run appended
BeforeRuns ==
    SubSeq(table, 1, Len(table) - Len(last.prior) - Len(last.added))

\* C28: when index_new_episodes is stopped, at any step and any number of
\* times, and then run again to its end, the index is the one a single run
\* that is not stopped would have left: every admissible frame of the new
\* episodes is in it, and none twice.
C28_ConvergesAfterInterruption ==
    ( /\ last.op = "index_new_episodes"
      /\ last.error = ""
      /\ last.resumed
      /\ has_table ) =>
        /\ table = Uninterrupted(BeforeRuns, last.season_filter)
        /\ \A e \in Range(SeasonDirs(EpisodeDirs(disk), last.season_filter)) :
              (\A r \in Range(BeforeRuns) : r.episode # e) =>
                 \A f \in DefaultAdmissible(e) :
                    \E i \in DOMAIN table :
                       /\ table[i] = FrameRecord(e, f)
                       /\ \A k \in DOMAIN table :
                             table[k].path = table[i].path => k = i

\* a run was stopped after it had appended an episode and while it held
\* records of the next; the run that took it up appended the rest
C28_Witness ==
    /\ last.op = "index_new_episodes"
    /\ last.error = ""
    /\ last.resumed
    /\ has_table
    /\ last.prior # <<>>
    /\ last.added # <<>>
    /\ BeforeRuns # <<>>

=============================================================================
